---- MODULE Spec2Model ----
(***************************************************************************)
(* Model of the OpenTTD savegame codec (rust/openttd_savegame and the      *)
(* big-endian reader of rust/openttd_core): the gamma variable-length      *)
(* integer codec, the chunk header and chunk body parsers, and the         *)
(* savegame reader and writer.                                             *)
(*                                                                         *)
(* Bytes are naturals 0..255 and byte buffers are sequences of bytes.      *)
(* Rust indexes from 0 and TLA+ sequences from 1: buf[i] of the source is  *)
(* buf[i + 1] here.  A u64 is kept as two limbs (see U64) because the      *)
(* gamma codec handles values of up to 35 bits.  A Rust panic (an index or *)
(* a slice out of range) is the outcome "Panic", distinct from the typed   *)
(* errors, which are the outcome "Err" with the name of the variant.       *)
(***************************************************************************)
EXTENDS Integers, Sequences, FiniteSets, TLC

VARIABLES
    g_pc,       \* gamma codec: "start", "encoded", "raw", "decoded"
    g_src,      \* where g_buf comes from: "none", "encode", "truncated", "raw"
    g_value,    \* the u64 handed to encode_gamma
    g_buf,      \* the bytes handed to decode_gamma
    g_res,      \* the result of decode_gamma
    h_pc,       \* chunk header: "start", "parsed"
    h_buf,      \* the bytes handed to ChunkHeader::parse
    h_res,      \* the result of ChunkHeader::parse
    r_pc,       \* RIFF body: "start", "parsed"
    r_mode,     \* header.mode_byte handed to parse_riff_chunk
    r_buf,      \* the bytes handed to parse_riff_chunk
    r_res,      \* the result of parse_riff_chunk
    a_pc,       \* Array/Table body: "header", "loop", "done"
    a_type,     \* header.chunk_type handed to parse_array_chunk / parse_table_chunk
    a_buf,      \* the bytes handed to it
    a_hdr,      \* the result of TableHeader::parse (Table and SparseTable)
    a_st,       \* the locals of the record loop: offset, items, implicit_index
    f_pc,       \* savegame file: "writing", "finalized", "opened", "read"
    f_writer,   \* the SavegameWriter
    f_added,    \* the (tag, data) of the add_riff_chunk calls made, in order
    f_file,     \* the result of finalize
    f_reader,   \* the result of SavegameReader::new
    f_chunks,   \* the result of read_chunks
    t_pc,       \* table header: "start", "header", "chunk", "read"
    t_type,     \* the chunk type of the table chunk: "Table", "SparseTable"
    t_fields,   \* the field descriptors t_buf was laid out from
    t_buf,      \* the bytes of the body of the table chunk
    t_hdr,      \* the result of TableHeader::parse
    t_chunk,    \* the result of parse_table_chunk
    t_chunks,   \* the result of read_chunks on the chunk
    s_pc,       \* savegame header: "start", "written", "raw", "parsed"
    s_header,   \* the SavegameHeader handed to write
    s_buf,      \* the bytes handed to SavegameHeader::parse
    s_res,      \* the result of SavegameHeader::parse
    l_pc,       \* RIFF length: "start", "written", "parsed"
    l_length,   \* data.len() of the payload handed to add_riff_chunk
    l_mode,     \* the mode byte add_riff_chunk writes for it
    l_len3,     \* the 3 length bytes add_riff_chunk writes for it
    l_res,      \* the length parse_riff_chunk reads from them
    e_reader,   \* the BigEndianReader: its slice and its cursor
    e_op,       \* the last read called on it, "none" before the first
    e_res,      \* what that read returned
    w_pc,       \* read_chunks step by step: "chunks", "fields", "records", "done"
    w_data,     \* self.decompressed_data
    w_offset,   \* the local offset of read_chunks
    w_chunks,   \* the local chunks of read_chunks
    w_header,   \* the header of the chunk whose body is being parsed
    w_fields,   \* the locals of the field loop of TableHeader::parse
    w_st,       \* the locals of the record loop of the body parser
    w_res       \* what read_chunks returns

g_vars == <<g_pc, g_src, g_value, g_buf, g_res>>
h_vars == <<h_pc, h_buf, h_res>>
r_vars == <<r_pc, r_mode, r_buf, r_res>>
a_vars == <<a_pc, a_type, a_buf, a_hdr, a_st>>
f_vars == <<f_pc, f_writer, f_added, f_file, f_reader, f_chunks>>
t_vars == <<t_pc, t_type, t_fields, t_buf, t_hdr, t_chunk, t_chunks>>
s_vars == <<s_pc, s_header, s_buf, s_res>>
l_vars == <<l_pc, l_length, l_mode, l_len3, l_res>>
e_vars == <<e_reader, e_op, e_res>>
w_vars == <<w_pc, w_data, w_offset, w_chunks, w_header, w_fields, w_st, w_res>>
vars == <<g_vars, h_vars, r_vars, a_vars, f_vars, t_vars, s_vars, l_vars, e_vars, w_vars>>

\* The variables a component leaves alone.
not_g == <<h_vars, r_vars, a_vars, f_vars, t_vars, s_vars, l_vars, e_vars, w_vars>>
not_h == <<g_vars, r_vars, a_vars, f_vars, t_vars, s_vars, l_vars, e_vars, w_vars>>
not_r == <<g_vars, h_vars, a_vars, f_vars, t_vars, s_vars, l_vars, e_vars, w_vars>>
not_a == <<g_vars, h_vars, r_vars, f_vars, t_vars, s_vars, l_vars, e_vars, w_vars>>
not_f == <<g_vars, h_vars, r_vars, a_vars, t_vars, s_vars, l_vars, e_vars, w_vars>>
not_t == <<g_vars, h_vars, r_vars, a_vars, f_vars, s_vars, l_vars, e_vars, w_vars>>
not_s == <<g_vars, h_vars, r_vars, a_vars, f_vars, t_vars, l_vars, e_vars, w_vars>>
not_l == <<g_vars, h_vars, r_vars, a_vars, f_vars, t_vars, s_vars, e_vars, w_vars>>
not_e == <<g_vars, h_vars, r_vars, a_vars, f_vars, t_vars, s_vars, l_vars, w_vars>>
not_w == <<g_vars, h_vars, r_vars, a_vars, f_vars, t_vars, s_vars, l_vars, e_vars>>

(***************************************************************************)
(* Bits and bytes                                                          *)
(***************************************************************************)
Byte == 0..255

RECURSIVE BitAnd(_, _)
\* a & b on naturals
BitAnd(a, b) ==
    IF a = 0 \/ b = 0 THEN 0
    ELSE (a % 2) * (b % 2) + 2 * BitAnd(a \div 2, b \div 2)

RECURSIVE BitOr(_, _)
\* a | b on naturals
BitOr(a, b) ==
    IF a = 0 THEN b
    ELSE IF b = 0 THEN a
    ELSE (IF a % 2 = 1 \/ b % 2 = 1 THEN 1 ELSE 0) + 2 * BitOr(a \div 2, b \div 2)

\* x as u8
AsU8(x) == x % 256

\* &buf[from..] with from <= buf.len()
SliceFrom(buf, from) == SubSeq(buf, from + 1, Len(buf))

\* &buf[from..to] with from <= to <= buf.len()
Slice(buf, from, to) == SubSeq(buf, from + 1, to)

(***************************************************************************)
(* u64 values.  [hi, lo] stands for hi * 2^24 + lo with 0 <= lo < 2^24, so *)
(* that ">> 24" is the high limb and the low three bytes are the low limb. *)
(***************************************************************************)
W24 == 16777216

U64(hi, lo) == [hi |-> hi, lo |-> lo]

\* n as u64, for 0 <= n < 2^31
U64FromNat(n) == U64(n \div W24, n % W24)

\* v <= w on u64
U64Le(v, w) == v.hi < w.hi \/ (v.hi = w.hi /\ v.lo <= w.lo)

\* v as usize (64 bit, so no truncation); defined here for v < 2^31
AsUsize(v) == v.hi * W24 + v.lo

(***************************************************************************)
(* Results                                                                 *)
(***************************************************************************)
NoValue == U64(0, 0)

\* Ok((value, bytes_consumed)) of decode_gamma
GammaOk(v, n) == [tag |-> "Ok", value |-> v, used |-> n, err |-> "none"]
\* Err(CoreError::<e>)
GammaErr(e) == [tag |-> "Err", value |-> NoValue, used |-> 0, err |-> e]
\* a panic (index out of bounds)
GammaPanic == [tag |-> "Panic", value |-> NoValue, used |-> 0, err |-> "none"]
GammaNone == [tag |-> "None", value |-> NoValue, used |-> 0, err |-> "none"]

(***************************************************************************)
(* gamma.rs                                                                *)
(***************************************************************************)
\* A mutant of gamma_byte_count: the 4-byte and 5-byte prefixes are confused.
gamma_byte_count_mut(first_byte) ==
    IF BitAnd(first_byte, 128) = 0 THEN 1
    ELSE IF BitAnd(first_byte, 64) = 0 THEN 2
    ELSE IF BitAnd(first_byte, 32) = 0 THEN 3
    ELSE IF BitAnd(first_byte, 16) = 0 THEN 5
    ELSE 4

\* The byte count announced by the leading 1-bits of the first byte.
gamma_byte_count(first_byte) ==
    IF BitAnd(first_byte, 128) = 0 THEN 1
    ELSE IF BitAnd(first_byte, 64) = 0 THEN 2
    ELSE IF BitAnd(first_byte, 32) = 0 THEN 3
    ELSE IF BitAnd(first_byte, 16) = 0 THEN 4
    ELSE 5

\* The value held by the byte_count bytes at the head of buf (all in range).
gamma_value(buf, byte_count) ==
    LET first_byte == buf[1] IN
    CASE byte_count = 2 ->
            U64(0, BitOr(BitAnd(first_byte, 63) * 256, buf[2]))
      [] byte_count = 3 ->
            U64(0, BitOr(BitOr(BitAnd(first_byte, 31) * 65536, buf[2] * 256), buf[3]))
      [] byte_count = 4 ->
            U64(BitAnd(first_byte, 15),
                BitOr(BitOr(buf[2] * 65536, buf[3] * 256), buf[4]))
      [] byte_count = 5 ->
            U64(BitOr(BitAnd(first_byte, 7) * 256, buf[2]),
                BitOr(BitOr(buf[3] * 65536, buf[4] * 256), buf[5]))

\* A mutant of decode_gamma: the length check before the reads is missing.
decode_gamma_mut(buf) ==
    IF Len(buf) = 0 THEN GammaErr("BufferTooSmall")
    ELSE
        LET first_byte == buf[1]
            byte_count == gamma_byte_count(first_byte)
        IN  IF byte_count = 1 THEN GammaOk(U64(0, first_byte), 1)
            ELSE IF Len(buf) < byte_count THEN GammaPanic
            ELSE GammaOk(gamma_value(buf, byte_count), byte_count)

decode_gamma(buf) ==
    IF Len(buf) = 0 THEN GammaErr("BufferTooSmall")
    ELSE
        LET first_byte == buf[1]
            byte_count == gamma_byte_count(first_byte)
        IN  IF byte_count = 1 THEN GammaOk(U64(0, first_byte), 1)
            ELSE IF Len(buf) < byte_count THEN GammaErr("BufferTooSmall")
            ELSE IF \E i \in 1..(byte_count - 1) : i >= Len(buf) THEN GammaPanic
            ELSE GammaOk(gamma_value(buf, byte_count), byte_count)

\* A mutant of encode_gamma: the one-byte form is taken for values up to 0xFF.
encode_gamma_mut(value) ==
    IF U64Le(value, U64(0, 255)) THEN
        <<AsU8(value.lo)>>
    ELSE IF U64Le(value, U64(0, 16383)) THEN
        <<BitOr(128, AsU8(value.lo \div 256)), BitAnd(value.lo, 255)>>
    ELSE IF U64Le(value, U64(0, 2097151)) THEN
        <<BitOr(192, AsU8(value.lo \div 65536)),
          BitAnd(value.lo \div 256, 255),
          BitAnd(value.lo, 255)>>
    ELSE IF U64Le(value, U64(15, W24 - 1)) THEN
        <<BitOr(224, AsU8(value.hi)),
          BitAnd(value.lo \div 65536, 255),
          BitAnd(value.lo \div 256, 255),
          BitAnd(value.lo, 255)>>
    ELSE
        <<240,
          BitAnd(value.hi, 255),
          BitAnd(value.lo \div 65536, 255),
          BitAnd(value.lo \div 256, 255),
          BitAnd(value.lo, 255)>>

encode_gamma(value) ==
    IF U64Le(value, U64(0, 127)) THEN
        <<AsU8(value.lo)>>
    ELSE IF U64Le(value, U64(0, 16383)) THEN
        <<BitOr(128, AsU8(value.lo \div 256)), BitAnd(value.lo, 255)>>
    ELSE IF U64Le(value, U64(0, 2097151)) THEN
        <<BitOr(192, AsU8(value.lo \div 65536)),
          BitAnd(value.lo \div 256, 255),
          BitAnd(value.lo, 255)>>
    ELSE IF U64Le(value, U64(15, W24 - 1)) THEN
        <<BitOr(224, AsU8(value.hi)),
          BitAnd(value.lo \div 65536, 255),
          BitAnd(value.lo \div 256, 255),
          BitAnd(value.lo, 255)>>
    ELSE
        <<240,
          BitAnd(value.hi, 255),
          BitAnd(value.lo \div 65536, 255),
          BitAnd(value.lo \div 256, 255),
          BitAnd(value.lo, 255)>>

(***************************************************************************)
(* chunk.rs: chunk types and chunk headers                                 *)
(***************************************************************************)
\* Ok(ChunkType::<ty>) and Err(CoreError::InvalidData("Invalid chunk type"))
TypeOk(ty) == [tag |-> "Ok", ty |-> ty, err |-> "none"]
TypeErr(e) == [tag |-> "Err", ty |-> "none", err |-> e]

\* A mutant of ChunkType_try_from: the whole byte is matched, not its low nibble.
ChunkType_try_from_mut(value) ==
    CASE value = 0 -> TypeOk("Riff")
      [] value = 1 -> TypeOk("Array")
      [] value = 2 -> TypeOk("SparseArray")
      [] value = 3 -> TypeOk("Table")
      [] value = 4 -> TypeOk("SparseTable")
      [] OTHER -> TypeErr("InvalidData(Invalid chunk type)")

\* impl TryFrom<u8> for ChunkType
ChunkType_try_from(value) ==
    LET nibble == BitAnd(value, 15) IN
    CASE nibble = 0 -> TypeOk("Riff")
      [] nibble = 1 -> TypeOk("Array")
      [] nibble = 2 -> TypeOk("SparseArray")
      [] nibble = 3 -> TypeOk("Table")
      [] nibble = 4 -> TypeOk("SparseTable")
      [] OTHER -> TypeErr("InvalidData(Invalid chunk type)")

\* struct ChunkHeader
ChunkHeader(tag, chunk_type, mode_byte) ==
    [tag |-> tag, chunk_type |-> chunk_type, mode_byte |-> mode_byte]

NoHeader == ChunkHeader(<<>>, "none", 0)

HeaderOk(header, n) == [tag |-> "Ok", header |-> header, used |-> n, err |-> "none"]
HeaderErr(e) == [tag |-> "Err", header |-> NoHeader, used |-> 0, err |-> e]
HeaderNone == [tag |-> "None", header |-> NoHeader, used |-> 0, err |-> "none"]

\* A mutant of ChunkHeader_parse: the mode byte of an end marker is validated
\* like that of any other chunk.
ChunkHeader_parse_mut(buf) ==
    IF Len(buf) < 5 THEN HeaderErr("BufferTooSmall")
    ELSE
        LET tag == Slice(buf, 0, 4)
            mode_byte == buf[5]
            chunk_type == ChunkType_try_from(mode_byte)
        IN  IF chunk_type.tag = "Err" THEN HeaderErr(chunk_type.err)
            ELSE HeaderOk(ChunkHeader(tag, chunk_type.ty, mode_byte), 5)

\* ChunkHeader::parse
ChunkHeader_parse(buf) ==
    IF Len(buf) < 5 THEN HeaderErr("BufferTooSmall")
    ELSE
        LET tag == Slice(buf, 0, 4) IN
        IF tag = <<0, 0, 0, 0>> THEN HeaderOk(ChunkHeader(tag, "Riff", 0), 5)
        ELSE
            LET mode_byte == buf[5]
                chunk_type == ChunkType_try_from(mode_byte)
            IN  IF chunk_type.tag = "Err" THEN HeaderErr(chunk_type.err)
                ELSE HeaderOk(ChunkHeader(tag, chunk_type.ty, mode_byte), 5)

\* ChunkHeader::is_end_marker
is_end_marker(header) == header.tag = <<0, 0, 0, 0>>

(***************************************************************************)
(* endian.rs: the big-endian reader, a cursor pos over the slice buf       *)
(***************************************************************************)
\* BigEndianReader::new
BigEndianReader_new(buf) == [buf |-> buf, pos |-> 0]

\* BigEndianReader::remaining
remaining(reader) ==
    IF Len(reader.buf) >= reader.pos THEN Len(reader.buf) - reader.pos ELSE 0

ReadOk(value, reader) == [tag |-> "Ok", value |-> value, reader |-> reader, err |-> "none"]
ReadErr(e, reader) == [tag |-> "Err", value |-> 0, reader |-> reader, err |-> e]

\* BigEndianReader::read_u24
read_u24(reader) ==
    IF remaining(reader) < 3 THEN ReadErr("UnexpectedEof", reader)
    ELSE
        LET b1 == reader.buf[reader.pos + 1]
            b2 == reader.buf[reader.pos + 2]
            b3 == reader.buf[reader.pos + 3]
        IN  ReadOk(BitOr(BitOr(b1 * 65536, b2 * 256), b3),
                   [reader EXCEPT !.pos = reader.pos + 3])

(***************************************************************************)
(* chunk.rs: the RIFF body                                                 *)
(***************************************************************************)
RiffOk(data, n) == [tag |-> "Ok", data |-> data, used |-> n, err |-> "none"]
RiffErr(e) == [tag |-> "Err", data |-> <<>>, used |-> 0, err |-> e]
RiffNone == [tag |-> "None", data |-> <<>>, used |-> 0, err |-> "none"]

\* A mutant of riff_length: the high nibble of the mode byte is ignored.
riff_length_mut(length_low, mode_byte) == length_low

\* The length of a RIFF body: 24 bits read from the stream, and the upper 4
\* bits of the mode byte above them.
riff_length(length_low, mode_byte) ==
    BitOr(length_low, (mode_byte \div 16) * W24)

\* A mutant of parse_riff_chunk: a body that ends early is returned as far as
\* it goes.
parse_riff_chunk_mut(header, buf) ==
    IF Len(buf) < 3 THEN RiffErr("BufferTooSmall")
    ELSE
        LET offset == 0
            r == read_u24(BigEndianReader_new(SliceFrom(buf, offset)))
        IN  IF r.tag = "Err" THEN RiffErr(r.err)
            ELSE
                LET length_low == r.value
                    offset1 == offset + 3
                    length == riff_length(length_low, header.mode_byte)
                IN  IF Len(buf) < offset1 + length
                    THEN RiffOk(SliceFrom(buf, offset1), Len(buf))
                    ELSE RiffOk(Slice(buf, offset1, offset1 + length), offset1 + length)

\* parse_riff_chunk
parse_riff_chunk(header, buf) ==
    IF Len(buf) < 3 THEN RiffErr("BufferTooSmall")
    ELSE
        LET offset == 0
            r == read_u24(BigEndianReader_new(SliceFrom(buf, offset)))
        IN  IF r.tag = "Err" THEN RiffErr(r.err)
            ELSE
                LET length_low == r.value
                    offset1 == offset + 3
                    length == riff_length(length_low, header.mode_byte)
                IN  IF Len(buf) < offset1 + length THEN RiffErr("BufferTooSmall")
                    ELSE RiffOk(Slice(buf, offset1, offset1 + length), offset1 + length)

(***************************************************************************)
(* UTF-8 as String::from_utf8 and String::from_utf8_lossy see it.  A       *)
(* String is kept as the bytes of its UTF-8 encoding.                      *)
(***************************************************************************)
\* The length of the sequence a lead byte starts, 0 for a byte that starts none.
utf8_width(b) ==
    IF b < 128 THEN 1
    ELSE IF b \in 194..223 THEN 2
    ELSE IF b \in 224..239 THEN 3
    ELSE IF b \in 240..244 THEN 4
    ELSE 0

\* The second byte allowed after the lead byte b0.
utf8_second_ok(b0, b1) ==
    CASE b0 = 224 -> b1 \in 160..191
      [] b0 = 237 -> b1 \in 128..159
      [] b0 = 240 -> b1 \in 144..191
      [] b0 = 244 -> b1 \in 128..143
      [] OTHER -> b1 \in 128..191

\* How many bytes from position i (from 1) match the sequence s[i] starts.
utf8_matched(s, i) ==
    LET w == utf8_width(s[i])
        ok2 == w >= 2 /\ i + 1 <= Len(s) /\ utf8_second_ok(s[i], s[i + 1])
        ok3 == ok2 /\ w >= 3 /\ i + 2 <= Len(s) /\ s[i + 2] \in 128..191
        ok4 == ok3 /\ w >= 4 /\ i + 3 <= Len(s) /\ s[i + 3] \in 128..191
    IN  IF w = 0 THEN 0
        ELSE IF ok4 THEN 4 ELSE IF ok3 THEN 3 ELSE IF ok2 THEN 2 ELSE 1

RECURSIVE utf8_valid_from(_, _)
utf8_valid_from(s, i) ==
    IF i > Len(s) THEN TRUE
    ELSE LET w == utf8_width(s[i]) IN
         w > 0 /\ utf8_matched(s, i) = w /\ utf8_valid_from(s, i + w)

StrOk(s) == [tag |-> "Ok", s |-> s]
StrErr == [tag |-> "Err", s |-> <<>>]

\* String::from_utf8
from_utf8(bytes) == IF utf8_valid_from(bytes, 1) THEN StrOk(bytes) ELSE StrErr

RECURSIVE utf8_lossy_from(_, _)
\* Each maximal ill-formed part becomes U+FFFD (EF BF BD).
utf8_lossy_from(s, i) ==
    IF i > Len(s) THEN <<>>
    ELSE LET w == utf8_width(s[i])
             n == utf8_matched(s, i)
         IN  IF w > 0 /\ n = w
             THEN SubSeq(s, i, i + w - 1) \o utf8_lossy_from(s, i + w)
             ELSE <<239, 191, 189>> \o utf8_lossy_from(s, i + (IF n = 0 THEN 1 ELSE n))

\* String::from_utf8_lossy(bytes).to_string()
from_utf8_lossy(bytes) == utf8_lossy_from(bytes, 1)

(***************************************************************************)
(* chunk.rs: table headers                                                 *)
(***************************************************************************)
\* DataType::try_from with the arms of I16 and U16 exchanged and 12 taken for Struct
DataType_try_from_mut(value) ==
    LET nibble == BitAnd(value, 15) IN
    CASE nibble = 1 -> TypeOk("I8")
      [] nibble = 2 -> TypeOk("U8")
      [] nibble = 3 -> TypeOk("U16")
      [] nibble = 4 -> TypeOk("I16")
      [] nibble = 5 -> TypeOk("I32")
      [] nibble = 6 -> TypeOk("U32")
      [] nibble = 7 -> TypeOk("I64")
      [] nibble = 8 -> TypeOk("U64")
      [] nibble = 9 -> TypeOk("StringId")
      [] nibble = 10 -> TypeOk("String")
      [] nibble \in {11, 12} -> TypeOk("Struct")
      [] OTHER -> TypeErr("InvalidData(Invalid data type)")

\* impl TryFrom<u8> for DataType
DataType_try_from(value) ==
    LET nibble == BitAnd(value, 15) IN
    CASE nibble = 1 -> TypeOk("I8")
      [] nibble = 2 -> TypeOk("U8")
      [] nibble = 3 -> TypeOk("I16")
      [] nibble = 4 -> TypeOk("U16")
      [] nibble = 5 -> TypeOk("I32")
      [] nibble = 6 -> TypeOk("U32")
      [] nibble = 7 -> TypeOk("I64")
      [] nibble = 8 -> TypeOk("U64")
      [] nibble = 9 -> TypeOk("StringId")
      [] nibble = 10 -> TypeOk("String")
      [] nibble = 11 -> TypeOk("Struct")
      [] OTHER -> TypeErr("InvalidData(Invalid data type)")

\* struct TableField
TableField(data_type, key, is_list) ==
    [data_type |-> data_type, key |-> key, is_list |-> is_list]

\* Ok((TableHeader { fields }, offset)), an error, a panic
TableOk(fields, n) == [tag |-> "Ok", fields |-> fields, used |-> n, err |-> "none"]
TableErr(e) == [tag |-> "Err", fields |-> <<>>, used |-> 0, err |-> e]
TablePanic == [tag |-> "Panic", fields |-> <<>>, used |-> 0, err |-> "none"]
TableNone == [tag |-> "None", fields |-> <<>>, used |-> 0, err |-> "none"]

RECURSIVE table_fields_mut(_, _, _, _)
\* A mutant of table_fields: the list flag is taken from bit 0x20 of the type
\* byte, and each field is put in front of the fields read before it.
table_fields_mut(buf, offset, header_end, fields) ==
    IF ~(offset < header_end) THEN TableOk(fields, offset)
    ELSE IF offset >= Len(buf) THEN TablePanic
    ELSE
        LET type_byte == buf[offset + 1]
            offset1 == offset + 1
        IN
        IF type_byte = 0 THEN TableOk(fields, offset1)
        ELSE
            LET is_list == BitAnd(type_byte, 32) # 0
                data_type == DataType_try_from(type_byte)
            IN
            IF data_type.tag = "Err" THEN TableErr(data_type.err)
            ELSE
                LET g == decode_gamma(SliceFrom(buf, offset1)) IN
                IF g.tag = "Err" THEN TableErr(g.err)
                ELSE IF g.tag = "Panic" THEN TablePanic
                ELSE
                    LET key_length == AsUsize(g.value)
                        offset2 == offset1 + g.used
                    IN
                    IF offset2 + key_length > Len(buf) THEN TablePanic
                    ELSE
                        LET key == from_utf8(Slice(buf, offset2, offset2 + key_length)) IN
                        IF key.tag = "Err" THEN TableErr("InvalidData(utf8)")
                        ELSE table_fields_mut(buf, offset2 + key_length, header_end,
                                 <<TableField(data_type.ty, key.s, is_list)>> \o fields)

RECURSIVE table_fields(_, _, _, _)
\* The loop over the field definitions of TableHeader::parse.
table_fields(buf, offset, header_end, fields) ==
    IF ~(offset < header_end) THEN TableOk(fields, offset)
    ELSE IF offset >= Len(buf) THEN TablePanic
    ELSE
        LET type_byte == buf[offset + 1]
            offset1 == offset + 1
        IN
        IF type_byte = 0 THEN TableOk(fields, offset1)
        ELSE
            LET is_list == BitAnd(type_byte, 16) # 0
                data_type == DataType_try_from(type_byte)
            IN
            IF data_type.tag = "Err" THEN TableErr(data_type.err)
            ELSE
                LET g == decode_gamma(SliceFrom(buf, offset1)) IN
                IF g.tag = "Err" THEN TableErr(g.err)
                ELSE IF g.tag = "Panic" THEN TablePanic
                ELSE
                    LET key_length == AsUsize(g.value)
                        offset2 == offset1 + g.used
                    IN
                    IF offset2 + key_length > Len(buf) THEN TablePanic
                    ELSE
                        LET key == from_utf8(Slice(buf, offset2, offset2 + key_length)) IN
                        IF key.tag = "Err" THEN TableErr("InvalidData(utf8)")
                        ELSE table_fields(buf, offset2 + key_length, header_end,
                                          Append(fields, TableField(data_type.ty, key.s, is_list)))

\* A mutant of TableHeader_parse: a header size of 0 is a header without fields.
TableHeader_parse_mut(buf) ==
    LET g == decode_gamma(SliceFrom(buf, 0)) IN
    IF g.tag = "Err" THEN TableErr(g.err)
    ELSE IF g.tag = "Panic" THEN TablePanic
    ELSE
        LET header_size == AsUsize(g.value)
            offset == g.used
        IN
        IF header_size = 0 THEN TableOk(<<>>, offset)
        ELSE table_fields(buf, offset, offset + header_size - 1, <<>>)

\* TableHeader::parse
TableHeader_parse(buf) ==
    LET g == decode_gamma(SliceFrom(buf, 0)) IN
    IF g.tag = "Err" THEN TableErr(g.err)
    ELSE IF g.tag = "Panic" THEN TablePanic
    ELSE
        LET header_size == AsUsize(g.value)
            offset == g.used
        IN
        IF header_size = 0 THEN TableErr("InvalidData(Table has no header)")
        ELSE table_fields(buf, offset, offset + header_size - 1, <<>>)

(***************************************************************************)
(* chunk.rs: the record loops of Array and Table bodies.  The locals of a  *)
(* loop are offset, items and implicit_index; status is "loop" while the   *)
(* loop runs, then "Ok" (the function returns items and offset), "Err" or  *)
(* "Panic".                                                                *)
(***************************************************************************)
Item(index, data) == [index |-> index, data |-> data]

LoopState(offset, items, implicit_index, status, err) ==
    [offset |-> offset, items |-> items, implicit_index |-> implicit_index,
     status |-> status, err |-> err]

\* The locals as the loop is entered at offset.
LoopStart(offset) == LoopState(offset, <<>>, 0, "loop", "none")

LoopErr(st, e) == [st EXCEPT !.status = "Err", !.err = e]
LoopPanic(st) == [st EXCEPT !.status = "Panic"]
LoopNone == LoopState(0, <<>>, 0, "None", "none")

\* A mutant of array_iter: a size_plus_one of 1 ends the loop as 0 does.
array_iter_mut(header, buf, st) ==
    IF st.offset > Len(buf) THEN LoopPanic(st)
    ELSE
    LET g == decode_gamma(SliceFrom(buf, st.offset)) IN
    IF g.tag = "Err" THEN LoopErr(st, g.err)
    ELSE IF g.tag = "Panic" THEN LoopPanic(st)
    ELSE
        LET size_plus_one == AsUsize(g.value)
            offset1 == st.offset + g.used
        IN
        IF size_plus_one <= 1 THEN [st EXCEPT !.offset = offset1, !.status = "Ok"]
        ELSE
            LET size == size_plus_one - 1
                sparse == header.chunk_type = "SparseArray"
                gi == decode_gamma(SliceFrom(buf, offset1))
            IN
            IF sparse /\ gi.tag = "Err" THEN LoopErr(st, gi.err)
            ELSE IF sparse /\ gi.tag = "Panic" THEN LoopPanic(st)
            ELSE
                LET index == IF sparse THEN AsUsize(gi.value) ELSE st.implicit_index
                    offset2 == IF sparse THEN offset1 + gi.used ELSE offset1
                    implicit1 == IF sparse THEN st.implicit_index ELSE st.implicit_index + 1
                IN
                IF Len(buf) < offset2 + size THEN LoopErr(st, "BufferTooSmall")
                ELSE [st EXCEPT !.offset = offset2 + size,
                                !.items = Append(st.items, Item(index, Slice(buf, offset2, offset2 + size))),
                                !.implicit_index = implicit1]

\* One iteration of the loop of parse_array_chunk.
array_iter(header, buf, st) ==
    IF st.offset > Len(buf) THEN LoopPanic(st)
    ELSE
    LET g == decode_gamma(SliceFrom(buf, st.offset)) IN
    IF g.tag = "Err" THEN LoopErr(st, g.err)
    ELSE IF g.tag = "Panic" THEN LoopPanic(st)
    ELSE
        LET size_plus_one == AsUsize(g.value)
            offset1 == st.offset + g.used
        IN
        IF size_plus_one = 0 THEN [st EXCEPT !.offset = offset1, !.status = "Ok"]
        ELSE
            LET size == size_plus_one - 1
                sparse == header.chunk_type = "SparseArray"
                gi == decode_gamma(SliceFrom(buf, offset1))
            IN
            IF sparse /\ gi.tag = "Err" THEN LoopErr(st, gi.err)
            ELSE IF sparse /\ gi.tag = "Panic" THEN LoopPanic(st)
            ELSE
                LET index == IF sparse THEN AsUsize(gi.value) ELSE st.implicit_index
                    offset2 == IF sparse THEN offset1 + gi.used ELSE offset1
                    implicit1 == IF sparse THEN st.implicit_index ELSE st.implicit_index + 1
                IN
                IF size > 0 THEN
                    IF Len(buf) < offset2 + size THEN LoopErr(st, "BufferTooSmall")
                    ELSE [st EXCEPT !.offset = offset2 + size,
                                    !.items = Append(st.items, Item(index, Slice(buf, offset2, offset2 + size))),
                                    !.implicit_index = implicit1]
                ELSE IF header.chunk_type = "Array" THEN
                    [st EXCEPT !.offset = offset2, !.implicit_index = implicit1 + 1]
                ELSE
                    [st EXCEPT !.offset = offset2, !.implicit_index = implicit1]

RECURSIVE array_loop(_, _, _)
array_loop(header, buf, st) ==
    IF st.status # "loop" THEN st ELSE array_loop(header, buf, array_iter(header, buf, st))

\* parse_array_chunk: the locals as the function returns
parse_array_chunk(header, buf) == array_loop(header, buf, LoopStart(0))

\* A mutant of table_iter: the explicit index of a sparse record is read but the
\* implicit counter is reported.
table_iter_mut(header, buf, st) ==
    IF st.offset > Len(buf) THEN LoopPanic(st)
    ELSE
    LET g == decode_gamma(SliceFrom(buf, st.offset)) IN
    IF g.tag = "Err" THEN LoopErr(st, g.err)
    ELSE IF g.tag = "Panic" THEN LoopPanic(st)
    ELSE
        LET size_plus_one == AsUsize(g.value)
            offset1 == st.offset + g.used
        IN
        IF size_plus_one = 0 THEN [st EXCEPT !.offset = offset1, !.status = "Ok"]
        ELSE
            LET size == size_plus_one - 1
                sparse == header.chunk_type = "SparseTable"
                gi == decode_gamma(SliceFrom(buf, offset1))
            IN
            IF sparse /\ gi.tag = "Err" THEN LoopErr(st, gi.err)
            ELSE IF sparse /\ gi.tag = "Panic" THEN LoopPanic(st)
            ELSE
                LET index == st.implicit_index
                    offset2 == IF sparse THEN offset1 + gi.used ELSE offset1
                    implicit1 == st.implicit_index + 1
                IN
                IF size > 0 THEN
                    IF Len(buf) < offset2 + size THEN LoopErr(st, "BufferTooSmall")
                    ELSE [st EXCEPT !.offset = offset2 + size,
                                    !.items = Append(st.items, Item(index, Slice(buf, offset2, offset2 + size))),
                                    !.implicit_index = implicit1]
                ELSE IF header.chunk_type = "Table" THEN
                    [st EXCEPT !.offset = offset2, !.implicit_index = implicit1 + 1]
                ELSE
                    [st EXCEPT !.offset = offset2, !.implicit_index = implicit1]

\* One iteration of the record loop of parse_table_chunk.
table_iter(header, buf, st) ==
    IF st.offset > Len(buf) THEN LoopPanic(st)
    ELSE
    LET g == decode_gamma(SliceFrom(buf, st.offset)) IN
    IF g.tag = "Err" THEN LoopErr(st, g.err)
    ELSE IF g.tag = "Panic" THEN LoopPanic(st)
    ELSE
        LET size_plus_one == AsUsize(g.value)
            offset1 == st.offset + g.used
        IN
        IF size_plus_one = 0 THEN [st EXCEPT !.offset = offset1, !.status = "Ok"]
        ELSE
            LET size == size_plus_one - 1
                sparse == header.chunk_type = "SparseTable"
                gi == decode_gamma(SliceFrom(buf, offset1))
            IN
            IF sparse /\ gi.tag = "Err" THEN LoopErr(st, gi.err)
            ELSE IF sparse /\ gi.tag = "Panic" THEN LoopPanic(st)
            ELSE
                LET index == IF sparse THEN AsUsize(gi.value) ELSE st.implicit_index
                    offset2 == IF sparse THEN offset1 + gi.used ELSE offset1
                    implicit1 == IF sparse THEN st.implicit_index ELSE st.implicit_index + 1
                IN
                IF size > 0 THEN
                    IF Len(buf) < offset2 + size THEN LoopErr(st, "BufferTooSmall")
                    ELSE [st EXCEPT !.offset = offset2 + size,
                                    !.items = Append(st.items, Item(index, Slice(buf, offset2, offset2 + size))),
                                    !.implicit_index = implicit1]
                ELSE IF header.chunk_type = "Table" THEN
                    [st EXCEPT !.offset = offset2, !.implicit_index = implicit1 + 1]
                ELSE
                    [st EXCEPT !.offset = offset2, !.implicit_index = implicit1]

RECURSIVE table_loop(_, _, _)
table_loop(header, buf, st) ==
    IF st.status # "loop" THEN st ELSE table_loop(header, buf, table_iter(header, buf, st))

\* The locals of parse_table_chunk once TableHeader::parse has returned th.
table_after_header(th) ==
    CASE th.tag = "Ok" -> LoopStart(th.used)
      [] th.tag = "Err" -> LoopErr(LoopStart(0), th.err)
      [] OTHER -> LoopPanic(LoopStart(0))

\* parse_table_chunk: the table header and the locals as the function returns
parse_table_chunk(header, buf) ==
    LET th == TableHeader_parse(SliceFrom(buf, 0)) IN
    [table_header |-> th, st |-> table_loop(header, buf, table_after_header(th))]

(***************************************************************************)
(* endian.rs: read_exact and read_u16                                      *)
(***************************************************************************)
ExactOk(bytes, reader) == [tag |-> "Ok", bytes |-> bytes, reader |-> reader, err |-> "none"]
ExactErr(e, reader) == [tag |-> "Err", bytes |-> <<>>, reader |-> reader, err |-> e]

\* read_exact advancing one byte short
read_exact_mut(reader, N) ==
    IF remaining(reader) < N THEN ExactErr("UnexpectedEof", reader)
    ELSE ExactOk(Slice(reader.buf, reader.pos, reader.pos + N),
                 [reader EXCEPT !.pos = reader.pos + N - 1])

\* BigEndianReader::read_exact::<N>
read_exact(reader, N) ==
    IF remaining(reader) < N THEN ExactErr("UnexpectedEof", reader)
    ELSE ExactOk(Slice(reader.buf, reader.pos, reader.pos + N),
                 [reader EXCEPT !.pos = reader.pos + N])

\* u16::from_be_bytes and u16::to_be_bytes
u16_from_be_bytes(bytes) == bytes[1] * 256 + bytes[2]
u16_to_be_bytes(v) == <<v \div 256, v % 256>>

\* BigEndianReader::read_u16
read_u16(reader) ==
    LET bytes == read_exact(reader, 2) IN
    IF bytes.tag = "Err" THEN ReadErr(bytes.err, reader)
    ELSE ReadOk(u16_from_be_bytes(bytes.bytes), bytes.reader)

(***************************************************************************)
(* header.rs: the 8-byte savegame header                                   *)
(***************************************************************************)
\* enum CompressionType
CompressionType == {"None", "Zlib", "Lzma", "Lzo"}

\* struct SavegameHeader
SavegameHeader(compression, version, flags) ==
    [compression |-> compression, version |-> version, flags |-> flags]

NoSavegameHeader == SavegameHeader("none", 0, 0)

FileHeaderOk(h) == [tag |-> "Ok", header |-> h, err |-> "none"]
FileHeaderErr(e) == [tag |-> "Err", header |-> NoSavegameHeader, err |-> e]

\* b"OTTD", b"OTTN", b"OTTZ", b"OTTX"
MagicOTTD == <<79, 84, 84, 68>>
MagicOTTN == <<79, 84, 84, 78>>
MagicOTTZ == <<79, 84, 84, 90>>
MagicOTTX == <<79, 84, 84, 88>>

\* A mutant of SavegameHeader_parse: a magic that is none of the four is taken
\* as that of an uncompressed file.
SavegameHeader_parse_mut(buf) ==
    LET reader == BigEndianReader_new(buf)
        magic == read_exact(reader, 4)
    IN
    IF magic.tag = "Err" THEN FileHeaderErr(magic.err)
    ELSE
        LET compression ==
                CASE magic.bytes = MagicOTTD -> "Lzo"
                  [] magic.bytes = MagicOTTZ -> "Zlib"
                  [] magic.bytes = MagicOTTX -> "Lzma"
                  [] OTHER -> "None"
            version == read_u16(magic.reader)
        IN
        IF version.tag = "Err" THEN FileHeaderErr(version.err)
        ELSE
            LET flags == read_u16(version.reader) IN
            IF flags.tag = "Err" THEN FileHeaderErr(flags.err)
            ELSE FileHeaderOk(SavegameHeader(compression, version.value, flags.value))

\* SavegameHeader::parse
SavegameHeader_parse(buf) ==
    LET reader == BigEndianReader_new(buf)
        magic == read_exact(reader, 4)
    IN
    IF magic.tag = "Err" THEN FileHeaderErr(magic.err)
    ELSE IF magic.bytes \notin {MagicOTTD, MagicOTTN, MagicOTTZ, MagicOTTX}
    THEN FileHeaderErr("InvalidMagic")
    ELSE
        LET compression ==
                CASE magic.bytes = MagicOTTD -> "Lzo"
                  [] magic.bytes = MagicOTTN -> "None"
                  [] magic.bytes = MagicOTTZ -> "Zlib"
                  [] magic.bytes = MagicOTTX -> "Lzma"
            version == read_u16(magic.reader)
        IN
        IF version.tag = "Err" THEN FileHeaderErr(version.err)
        ELSE
            LET flags == read_u16(version.reader) IN
            IF flags.tag = "Err" THEN FileHeaderErr(flags.err)
            ELSE FileHeaderOk(SavegameHeader(compression, version.value, flags.value))

\* A mutant of SavegameHeader_write: the version is written low byte first.
SavegameHeader_write_mut(h) ==
    LET magic ==
            CASE h.compression = "Lzo" -> MagicOTTD
              [] h.compression = "None" -> MagicOTTN
              [] h.compression = "Zlib" -> MagicOTTZ
              [] h.compression = "Lzma" -> MagicOTTX
    IN  magic \o <<h.version % 256, h.version \div 256>> \o u16_to_be_bytes(h.flags)

\* SavegameHeader::write
SavegameHeader_write(h) ==
    LET magic ==
            CASE h.compression = "Lzo" -> MagicOTTD
              [] h.compression = "None" -> MagicOTTN
              [] h.compression = "Zlib" -> MagicOTTZ
              [] h.compression = "Lzma" -> MagicOTTX
    IN  magic \o u16_to_be_bytes(h.version) \o u16_to_be_bytes(h.flags)

(***************************************************************************)
(* The compression libraries savegame.rs calls (flate2, lzma_rs), by the   *)
(* container each writes and accepts.  The compressed body is kept as a    *)
(* stored (uncompressed) block: what matters to the savegame code is which *)
(* container surrounds it and that a container gives back what was put in. *)
(***************************************************************************)
RECURSIVE adler_a(_, _)
\* the low half of Adler-32 over the first n bytes of data
adler_a(data, n) == IF n = 0 THEN 1 ELSE (adler_a(data, n - 1) + data[n]) % 65521

RECURSIVE adler_b(_, _)
\* the high half of Adler-32 over the first n bytes of data
adler_b(data, n) == IF n = 0 THEN 0 ELSE (adler_b(data, n - 1) + adler_a(data, n)) % 65521

\* Adler-32 of data, big-endian
adler32_be(data) ==
    LET a == adler_a(data, Len(data))
        b == adler_b(data, Len(data))
    IN  <<b \div 256, b % 256, a \div 256, a % 256>>

\* flate2::write::ZlibEncoder: a zlib stream (RFC 1950) of data, here the
\* header 78 9C, one final stored block and the Adler-32 of data.
zlib_compress(data) ==
    LET n == Len(data) IN
    <<120, 156>>
        \o <<1, n % 256, n \div 256, 255 - (n % 256), 255 - (n \div 256)>>
        \o data
        \o adler32_be(data)

BytesOk(bytes) == [tag |-> "Ok", bytes |-> bytes, err |-> "none"]
BytesErr(e) == [tag |-> "Err", bytes |-> <<>>, err |-> e]
BytesNone == [tag |-> "None", bytes |-> <<>>, err |-> "none"]

\* flate2::read::ZlibDecoder + read_to_end: the data of a zlib stream, an
\* io::Error for anything else.
zlib_decompress(bytes) ==
    IF Len(bytes) < 11 THEN BytesErr("Io")
    ELSE IF bytes[1] % 16 # 8 \/ (bytes[1] * 256 + bytes[2]) % 31 # 0 THEN BytesErr("Io")
    ELSE IF bytes[3] # 1 THEN BytesErr("Io")
    ELSE
        LET n == bytes[4] + 256 * bytes[5] IN
        IF bytes[6] # 255 - bytes[4] \/ bytes[7] # 255 - bytes[5] THEN BytesErr("Io")
        ELSE IF Len(bytes) < 11 + n THEN BytesErr("Io")
        ELSE
            LET data == SubSeq(bytes, 8, 7 + n) IN
            IF SubSeq(bytes, 8 + n, 11 + n) # adler32_be(data) THEN BytesErr("Io")
            ELSE BytesOk(data)

\* The magic of an XZ container and its footer magic.
XzMagic == <<253, 55, 122, 88, 90, 0>>
XzFooter == <<89, 90>>

\* lzma_rs::lzma_compress: the legacy .lzma container: the properties byte 5D,
\* the dictionary size, the unpacked size (unknown: all ones), then the body.
lzma_compress(data) ==
    <<93, 0, 0, 128, 0>> \o <<255, 255, 255, 255, 255, 255, 255, 255>> \o data

\* lzma_rs::xz_decompress: the data of an XZ container, an lzma error for
\* anything that does not start with the XZ magic or end with its footer.
xz_decompress(bytes) ==
    IF Len(bytes) < 8 THEN BytesErr("Lzma")
    ELSE IF SubSeq(bytes, 1, 6) # XzMagic THEN BytesErr("Lzma")
    ELSE IF SubSeq(bytes, Len(bytes) - 1, Len(bytes)) # XzFooter THEN BytesErr("Lzma")
    ELSE BytesOk(SubSeq(bytes, 7, Len(bytes) - 2))

(***************************************************************************)
(* savegame.rs: the writer                                                 *)
(***************************************************************************)
\* struct SavegameWriter
SavegameWriter(header, chunks) == [header |-> header, chunks |-> chunks]

\* SavegameWriter::new
SavegameWriter_new(version, compression) ==
    SavegameWriter(SavegameHeader(compression, version, 0), <<>>)

\* A mutant of riff_mode_byte: the high part of the length is not shifted into
\* the high nibble.
riff_mode_byte_mut(length) ==
    IF length < W24 THEN 0
    ELSE AsU8(length \div W24)

\* The mode byte add_riff_chunk derives from the length of the payload.
riff_mode_byte(length) ==
    IF length < W24 THEN 0
    ELSE AsU8(AsU8(length \div W24) * 16)

\* The 3 length bytes add_riff_chunk writes.
riff_length_bytes(length) ==
    <<BitAnd(length \div 65536, 255), BitAnd(length \div 256, 255), BitAnd(length, 255)>>

\* A mutant of add_riff_chunk: the 3 length bytes are written low byte first.
add_riff_chunk_mut(writer, tag, data) ==
    LET length == Len(data)
        mode_byte == riff_mode_byte(length)
        len3 == riff_length_bytes(length)
    IN  [writer EXCEPT !.chunks = writer.chunks \o tag \o <<mode_byte>>
                                    \o <<len3[3], len3[2], len3[1]>> \o data]

\* SavegameWriter::add_riff_chunk: the writer after the call, which returns Ok(())
add_riff_chunk(writer, tag, data) ==
    LET length == Len(data)
        mode_byte == riff_mode_byte(length)
    IN  [writer EXCEPT !.chunks = writer.chunks \o tag \o <<mode_byte>>
                                    \o riff_length_bytes(length) \o data]

\* A mutant of finalize: the end marker is 4 bytes long.
finalize_mut(writer) ==
    LET chunks == writer.chunks \o <<0, 0, 0, 0>>
        result == SavegameHeader_write(writer.header)
    IN  CASE writer.header.compression = "None" -> BytesOk(result \o chunks)
          [] writer.header.compression = "Zlib" -> BytesOk(result \o zlib_compress(chunks))
          [] writer.header.compression = "Lzma" -> BytesOk(result \o lzma_compress(chunks))
          [] writer.header.compression = "Lzo" -> BytesErr("UnsupportedCompression(Lzo)")

\* SavegameWriter::finalize
finalize(writer) ==
    LET chunks == writer.chunks \o <<0, 0, 0, 0, 0>>
        result == SavegameHeader_write(writer.header)
    IN  CASE writer.header.compression = "None" -> BytesOk(result \o chunks)
          [] writer.header.compression = "Zlib" -> BytesOk(result \o zlib_compress(chunks))
          [] writer.header.compression = "Lzma" -> BytesOk(result \o lzma_compress(chunks))
          [] writer.header.compression = "Lzo" -> BytesErr("UnsupportedCompression(Lzo)")

(***************************************************************************)
(* savegame.rs: the reader                                                 *)
(***************************************************************************)
\* struct SavegameReader
SavegameReader(header, decompressed_data) ==
    [header |-> header, decompressed_data |-> decompressed_data]

NoReader == SavegameReader(NoSavegameHeader, <<>>)

ReaderOk(reader) == [tag |-> "Ok", reader |-> reader, err |-> "none"]
ReaderErr(e) == [tag |-> "Err", reader |-> NoReader, err |-> e]
ReaderNone == [tag |-> "None", reader |-> NoReader, err |-> "none"]

\* A mutant of SavegameReader_new: the payload of an Lzo file is passed through.
SavegameReader_new_mut(data) ==
    LET header == SavegameHeader_parse(data) IN
    IF header.tag = "Err" THEN ReaderErr(header.err)
    ELSE IF Len(data) < 8 THEN ReaderErr("InvalidFormat")
    ELSE
        LET compressed_data == SliceFrom(data, 8)
            decompressed ==
                CASE header.header.compression = "None" -> BytesOk(compressed_data)
                  [] header.header.compression = "Zlib" -> zlib_decompress(compressed_data)
                  [] header.header.compression = "Lzma" -> xz_decompress(compressed_data)
                  [] header.header.compression = "Lzo" -> BytesOk(compressed_data)
        IN  IF decompressed.tag = "Err" THEN ReaderErr(decompressed.err)
            ELSE ReaderOk(SavegameReader(header.header, decompressed.bytes))

\* SavegameReader::new
SavegameReader_new(data) ==
    LET header == SavegameHeader_parse(data) IN
    IF header.tag = "Err" THEN ReaderErr(header.err)
    ELSE IF Len(data) < 8 THEN ReaderErr("InvalidFormat")
    ELSE
        LET compressed_data == SliceFrom(data, 8)
            decompressed ==
                CASE header.header.compression = "None" -> BytesOk(compressed_data)
                  [] header.header.compression = "Zlib" -> zlib_decompress(compressed_data)
                  [] header.header.compression = "Lzma" -> xz_decompress(compressed_data)
                  [] header.header.compression = "Lzo" -> BytesErr("UnsupportedCompression(Lzo)")
        IN  IF decompressed.tag = "Err" THEN ReaderErr(decompressed.err)
            ELSE ReaderOk(SavegameReader(header.header, decompressed.bytes))

\* ChunkHeader::tag_string
tag_string(header) == from_utf8_lossy(header.tag)

\* enum ChunkData
ChunkData_Riff(bytes) == [kind |-> "Riff", bytes |-> bytes, items |-> <<>>, fields |-> <<>>]
ChunkData_Array(items) == [kind |-> "Array", bytes |-> <<>>, items |-> items, fields |-> <<>>]
ChunkData_Table(fields, records) ==
    [kind |-> "Table", bytes |-> <<>>, items |-> records, fields |-> fields]

\* struct Chunk
Chunk(tag, chunk_type, data) == [tag |-> tag, chunk_type |-> chunk_type, data |-> data]

ChunksOk(chunks) == [tag |-> "Ok", chunks |-> chunks, err |-> "none"]
ChunksErr(e) == [tag |-> "Err", chunks |-> <<>>, err |-> e]
ChunksPanic == [tag |-> "Panic", chunks |-> <<>>, err |-> "none"]
ChunksNone == [tag |-> "None", chunks |-> <<>>, err |-> "none"]

\* What read_chunks keeps of the result of each body parser: how the parser
\* ended, the bytes it read, and the chunk data.
riff_body(r) ==
    [status |-> r.tag, err |-> r.err, used |-> r.used, chunk_data |-> ChunkData_Riff(r.data)]
array_body(st) ==
    [status |-> st.status, err |-> st.err, used |-> st.offset,
     chunk_data |-> ChunkData_Array(st.items)]
table_body(t) ==
    [status |-> t.st.status, err |-> t.st.err, used |-> t.st.offset,
     chunk_data |-> ChunkData_Table(t.table_header.fields, t.st.items)]

\* match header.chunk_type: the body of the chunk behind header at offset
chunk_body(header, data, offset) ==
    CASE header.chunk_type = "Riff" ->
            riff_body(parse_riff_chunk(header, SliceFrom(data, offset)))
      [] header.chunk_type \in {"Array", "SparseArray"} ->
            array_body(parse_array_chunk(header, SliceFrom(data, offset)))
      [] header.chunk_type \in {"Table", "SparseTable"} ->
            table_body(parse_table_chunk(header, SliceFrom(data, offset)))

RECURSIVE read_chunks_loop(_, _, _)

\* The end of an iteration of the loop of read_chunks: body is what the body
\* parser returned for the chunk behind header, whose body starts at offset.
read_chunks_push(data, offset, chunks, header, body) ==
    IF body.status = "Err" THEN ChunksErr(body.err)
    ELSE IF body.status = "Panic" THEN ChunksPanic
    ELSE read_chunks_loop(data, offset + body.used,
            Append(chunks, Chunk(tag_string(header), header.chunk_type, body.chunk_data)))

\* A mutant of read_chunks_iter: the end marker is taken for a chunk.
read_chunks_iter_mut(data, offset, chunks, h) ==
    IF h.tag = "Err" THEN ChunksErr(h.err)
    ELSE read_chunks_push(data, offset + h.used, chunks, h.header,
                          chunk_body(h.header, data, offset + h.used))

\* An iteration of the loop of read_chunks from the point where
\* ChunkHeader::parse has returned h for the bytes at offset.
read_chunks_iter(data, offset, chunks, h) ==
    IF h.tag = "Err" THEN ChunksErr(h.err)
    ELSE IF is_end_marker(h.header) THEN ChunksOk(chunks)
    ELSE read_chunks_push(data, offset + h.used, chunks, h.header,
                          chunk_body(h.header, data, offset + h.used))

\* The loop of read_chunks with its locals offset and chunks.
read_chunks_loop(data, offset, chunks) ==
    IF offset + 5 > Len(data) THEN ChunksOk(chunks)
    ELSE read_chunks_iter(data, offset, chunks, ChunkHeader_parse(SliceFrom(data, offset)))

\* A mutant of read_chunks: the chunk that was parsed last comes first.
read_chunks_mut(reader) ==
    LET r == read_chunks_loop(reader.decompressed_data, 0, <<>>) IN
    [r EXCEPT !.chunks = [i \in DOMAIN r.chunks |-> r.chunks[Len(r.chunks) + 1 - i]]]

\* SavegameReader::read_chunks
read_chunks(reader) == read_chunks_loop(reader.decompressed_data, 0, <<>>)

(***************************************************************************)
(* endian.rs: the remaining reads.  u32 is held as two limbs and u64 and   *)
(* i64 as three, since their values do not fit one machine word of the     *)
(* checker; the top limb of a signed value carries the sign.               *)
(***************************************************************************)
\* BigEndianReader::position
position(reader) == reader.pos

\* BigEndianReader::read_u8
read_u8(reader) ==
    IF remaining(reader) < 1 THEN ReadErr("UnexpectedEof", reader)
    ELSE ReadOk(reader.buf[reader.pos + 1], [reader EXCEPT !.pos = reader.pos + 1])

\* the cast `as i8`
AsI8(v) == IF v >= 128 THEN v - 256 ELSE v

\* BigEndianReader::read_i8
read_i8(reader) ==
    LET byte == read_u8(reader) IN
    IF byte.tag = "Err" THEN ReadErr(byte.err, reader)
    ELSE ReadOk(AsI8(byte.value), byte.reader)

\* i16::from_be_bytes
i16_from_be_bytes(bytes) == AsI8(bytes[1]) * 256 + bytes[2]

\* BigEndianReader::read_i16
read_i16(reader) ==
    LET bytes == read_exact(reader, 2) IN
    IF bytes.tag = "Err" THEN ReadErr(bytes.err, reader)
    ELSE ReadOk(i16_from_be_bytes(bytes.bytes), bytes.reader)

\* u32::from_be_bytes
u32_from_be_bytes(bytes) ==
    [hi |-> bytes[1], lo |-> bytes[2] * 65536 + bytes[3] * 256 + bytes[4]]

\* BigEndianReader::read_u32
read_u32(reader) ==
    LET bytes == read_exact(reader, 4) IN
    IF bytes.tag = "Err" THEN ReadErr(bytes.err, reader)
    ELSE ReadOk(u32_from_be_bytes(bytes.bytes), bytes.reader)

\* i32::from_be_bytes
i32_from_be_bytes(bytes) ==
    AsI8(bytes[1]) * W24 + bytes[2] * 65536 + bytes[3] * 256 + bytes[4]

\* BigEndianReader::read_i32
read_i32(reader) ==
    LET bytes == read_exact(reader, 4) IN
    IF bytes.tag = "Err" THEN ReadErr(bytes.err, reader)
    ELSE ReadOk(i32_from_be_bytes(bytes.bytes), bytes.reader)

\* u64::from_be_bytes
u64_from_be_bytes(bytes) ==
    [top |-> bytes[1] * 256 + bytes[2],
     hi |-> bytes[3] * 65536 + bytes[4] * 256 + bytes[5],
     lo |-> bytes[6] * 65536 + bytes[7] * 256 + bytes[8]]

\* BigEndianReader::read_u64
read_u64(reader) ==
    LET bytes == read_exact(reader, 8) IN
    IF bytes.tag = "Err" THEN ReadErr(bytes.err, reader)
    ELSE ReadOk(u64_from_be_bytes(bytes.bytes), bytes.reader)

\* i64::from_be_bytes
i64_from_be_bytes(bytes) ==
    [top |-> AsI8(bytes[1]) * 256 + bytes[2],
     hi |-> bytes[3] * 65536 + bytes[4] * 256 + bytes[5],
     lo |-> bytes[6] * 65536 + bytes[7] * 256 + bytes[8]]

\* BigEndianReader::read_i64
read_i64(reader) ==
    LET bytes == read_exact(reader, 8) IN
    IF bytes.tag = "Err" THEN ReadErr(bytes.err, reader)
    ELSE ReadOk(i64_from_be_bytes(bytes.bytes), bytes.reader)

(***************************************************************************)
(* chunk.rs: one iteration of the field loop of TableHeader::parse.  The   *)
(* locals of the loop are offset and fields, next to header_end; status is *)
(* "loop" while the loop runs, then "Ok", "Err" or "Panic".                *)
(***************************************************************************)
FieldLoop(offset, header_end, fields) ==
    [offset |-> offset, header_end |-> header_end, fields |-> fields,
     status |-> "loop", err |-> "none"]
FieldLoopNone == [FieldLoop(0, 0, <<>>) EXCEPT !.status = "None"]

\* The body of `while offset < header_end` in TableHeader::parse, entered
\* with offset < header_end.
table_field_iter(buf, fl) ==
    IF fl.offset >= Len(buf) THEN [fl EXCEPT !.status = "Panic"]
    ELSE
        LET type_byte == buf[fl.offset + 1]
            offset1 == fl.offset + 1
        IN
        IF type_byte = 0 THEN [fl EXCEPT !.offset = offset1, !.status = "Ok"]
        ELSE
            LET is_list == BitAnd(type_byte, 16) # 0
                data_type == DataType_try_from(type_byte)
            IN
            IF data_type.tag = "Err" THEN [fl EXCEPT !.status = "Err", !.err = data_type.err]
            ELSE
                LET g == decode_gamma(SliceFrom(buf, offset1)) IN
                IF g.tag = "Err" THEN [fl EXCEPT !.status = "Err", !.err = g.err]
                ELSE IF g.tag = "Panic" THEN [fl EXCEPT !.status = "Panic"]
                ELSE
                    LET key_length == AsUsize(g.value)
                        offset2 == offset1 + g.used
                    IN
                    IF offset2 + key_length > Len(buf) THEN [fl EXCEPT !.status = "Panic"]
                    ELSE
                        LET key == from_utf8(Slice(buf, offset2, offset2 + key_length)) IN
                        IF key.tag = "Err"
                        THEN [fl EXCEPT !.status = "Err", !.err = "InvalidData(utf8)"]
                        ELSE [fl EXCEPT !.offset = offset2 + key_length,
                                        !.fields = Append(fl.fields,
                                            TableField(data_type.ty, key.s, is_list))]

\* `while offset < header_end { .. }` up to the next test of the condition,
\* and the return Ok((Self { fields }, offset)) when the condition fails
table_field_step(buf, fl) ==
    IF fl.offset < fl.header_end THEN table_field_iter(buf, fl)
    ELSE [fl EXCEPT !.status = "Ok"]

(***************************************************************************)
(* The gamma codec applied to bounded inputs                               *)
(***************************************************************************)
\* Values up to 2^MaxGammaBits + 1 are encoded.
MaxGammaBits == 35
\* Raw buffers handed to decode_gamma hold up to MaxGammaLen bytes.
MaxGammaLen == 5

RECURSIVE Pow2(_)
Pow2(k) == IF k = 0 THEN 1 ELSE 2 * Pow2(k - 1)

\* 2^k as a u64
U64Pow2(k) == IF k < 24 THEN U64(0, Pow2(k)) ELSE U64(Pow2(k - 24), 0)

\* v + 1 and v - 1 on u64 (v > 0 for the latter)
U64Succ(v) == IF v.lo = W24 - 1 THEN U64(v.hi + 1, 0) ELSE U64(v.hi, v.lo + 1)
U64Pred(v) == IF v.lo = 0 THEN U64(v.hi - 1, W24 - 1) ELSE U64(v.hi, v.lo - 1)

\* Every power of two with its two neighbours, and the values of the tests.
GammaValues ==
    UNION {{U64Pred(U64Pow2(k)), U64Pow2(k), U64Succ(U64Pow2(k))} : k \in 0..MaxGammaBits}
    \cup {U64FromNat(n) : n \in {255, 1000000, 65535, 300, 20000, 3000000}}

GammaTailBytes == {0, 165, 255}

RECURSIVE SeqsUpTo(_, _)
\* the sequences over S of length at most n
SeqsUpTo(S, n) ==
    IF n = 0 THEN {<<>>}
    ELSE LET shorter == SeqsUpTo(S, n - 1)
         IN  shorter \cup {Append(t, b) : t \in shorter, b \in S}

\* Every first byte, followed by up to MaxGammaLen - 1 bytes.
GammaRawBufs ==
    {<<>>} \cup {<<b>> \o t : b \in Byte, t \in SeqsUpTo(GammaTailBytes, MaxGammaLen - 1)}

GammaIdle ==
    /\ g_pc = "idle"
    /\ g_src = "none"
    /\ g_value = NoValue
    /\ g_buf = <<>>
    /\ g_res = GammaNone

GammaInit ==
    \/ /\ g_pc = "start"
       /\ g_src = "none"
       /\ g_value \in GammaValues
       /\ g_buf = <<>>
       /\ g_res = GammaNone
    \/ /\ g_pc = "raw"
       /\ g_src = "raw"
       /\ g_value = NoValue
       /\ g_buf \in GammaRawBufs
       /\ g_res = GammaNone

\* encode_gamma(g_value)
GammaEncode ==
    /\ g_pc = "start"
    /\ g_buf' = encode_gamma(g_value)
    /\ g_src' = "encode"
    /\ g_pc' = "encoded"
    /\ UNCHANGED <<g_value, g_res, not_g>>

\* The encoding loses its tail before it is decoded.
GammaTruncate ==
    /\ g_pc = "encoded"
    /\ \E n \in 0..(Len(g_buf) - 1) : g_buf' = SubSeq(g_buf, 1, n)
    /\ g_src' = "truncated"
    /\ g_pc' = "raw"
    /\ UNCHANGED <<g_value, g_res, not_g>>

\* decode_gamma(g_buf)
GammaDecode ==
    /\ g_pc \in {"encoded", "raw"}
    /\ g_res' = decode_gamma(g_buf)
    /\ g_pc' = "decoded"
    /\ UNCHANGED <<g_value, g_buf, g_src, not_g>>

GammaNext == GammaEncode \/ GammaTruncate \/ GammaDecode

(***************************************************************************)
(* Properties of the gamma codec                                           *)
(***************************************************************************)
\* v < 2^32
BelowPow32(v) == v.hi < 256

\* C2: a value below 2^32 that is encoded and then decoded comes back, with
\* the length of its encoding as the number of bytes consumed.
C2_GammaRoundTrip ==
    (g_pc = "decoded" /\ g_src = "encode" /\ BelowPow32(g_value))
        => g_res = GammaOk(g_value, Len(g_buf))

\* The round trip of 2^32 - 1, which takes the five-byte form.
C2_Witness ==
    /\ g_pc = "decoded"
    /\ g_src = "encode"
    /\ g_value = U64(255, W24 - 1)
    /\ g_res = GammaOk(g_value, 5)

\* The n-byte form holds 7 * n value bits.
FormHolds(n, v) == U64Le(v, U64Pred(U64Pow2(7 * n)))

\* The length of the shortest of the five forms that holds v (5 when none does).
ShortestForm(v) ==
    IF \E n \in 1..5 : FormHolds(n, v)
    THEN CHOOSE n \in 1..5 : FormHolds(n, v) /\ \A m \in 1..(n - 1) : ~FormHolds(m, v)
    ELSE 5

RECURSIVE LeadingOnes(_, _)
\* the number of leading 1-bits of the byte b, looking at the bits from mask down
LeadingOnes(b, mask) ==
    IF mask = 0 \/ BitAnd(b, mask) = 0 THEN 0
    ELSE 1 + LeadingOnes(b, mask \div 2)

\* C3: encode_gamma takes the shortest form that holds the value, and the first
\* byte has (length - 1) leading 1-bits.
C3_EncodeMinimal ==
    g_pc = "encoded"
        => /\ Len(g_buf) = ShortestForm(g_value)
           /\ LeadingOnes(g_buf[1], 128) = Len(g_buf) - 1

\* 16383, the largest value of the two-byte form, was encoded in two bytes.
C3_Witness ==
    /\ g_pc = "encoded"
    /\ g_value = U64(0, 16383)
    /\ g_buf = <<191, 255>>

\* The variants of CoreError that report that the input ends too early.
IsTruncation(e) == e \in {"BufferTooSmall", "UnexpectedEof"}

\* The byte count a first byte announces: one more than its leading 1-bits,
\* five at most.
AnnouncedCount(first_byte) ==
    LET n == LeadingOnes(first_byte, 128) + 1 IN IF n > 5 THEN 5 ELSE n

\* C4: decode_gamma fails with a truncation error on an empty buffer and on a
\* buffer shorter than the announced byte count, never reads beyond the buffer,
\* and on success consumes 1 to 5 bytes, no more than the buffer holds.
C4_DecodeTruncation ==
    g_pc = "decoded"
        => /\ (Len(g_buf) = 0 \/ Len(g_buf) < AnnouncedCount(g_buf[1]))
                => (g_res.tag = "Err" /\ IsTruncation(g_res.err))
           /\ g_res.tag # "Panic"
           /\ g_res.tag = "Ok"
                => (g_res.used \in 1..5 /\ g_res.used <= Len(g_buf))

\* A four-byte encoding cut to two bytes was refused.
C4_Witness ==
    /\ g_pc = "decoded"
    /\ g_src = "truncated"
    /\ Len(g_buf) = 2
    /\ AnnouncedCount(g_buf[1]) = 4
    /\ g_res = GammaErr("BufferTooSmall")

\* C23: decode_gamma refuses a first byte whose top five bits are all 1
\* (0xF8..0xFF), which starts none of the five forms.
C23_RejectsUnknownPrefix ==
    (g_pc = "decoded" /\ Len(g_buf) > 0 /\ g_buf[1] >= 248) => g_res.tag = "Err"

\* C25: a value from 2^28 to 2^35 - 1 is encoded in five bytes, bits 32..34
\* in the low 3 bits of the first byte after the prefix 11110 and bits 0..31
\* in the other four, and decoding the five bytes gives the value back.
C25_FiveByteForm ==
    (g_pc = "decoded" /\ g_src = "encode"
        /\ U64Le(U64(16, 0), g_value) /\ g_value.hi < 2048)
        => /\ g_buf = <<240 + (g_value.hi \div 256), g_value.hi % 256,
                        g_value.lo \div 65536, (g_value.lo \div 256) % 256,
                        g_value.lo % 256>>
           /\ g_res = GammaOk(g_value, 5)

(***************************************************************************)
(* ChunkHeader::parse applied to bounded inputs                            *)
(***************************************************************************)
\* Up to MaxHeaderTail bytes follow the five bytes of a chunk header.
MaxHeaderTail == 1

HeaderTagBytes == {0, 77}

\* Buffers too short for a header, and every tag over HeaderTagBytes with every
\* mode byte and a short tail.
HeaderBufs ==
    SeqsUpTo(HeaderTagBytes, 4)
    \cup {tag \o <<m>> \o t :
            tag \in {q \in SeqsUpTo(HeaderTagBytes, 4) : Len(q) = 4},
            m \in Byte,
            t \in SeqsUpTo(HeaderTagBytes, MaxHeaderTail)}

HeaderIdle ==
    /\ h_pc = "idle"
    /\ h_buf = <<>>
    /\ h_res = HeaderNone

HeaderInit ==
    /\ h_pc = "start"
    /\ h_buf \in HeaderBufs
    /\ h_res = HeaderNone

\* ChunkHeader::parse(h_buf)
HeaderParse ==
    /\ h_pc = "start"
    /\ h_res' = ChunkHeader_parse(h_buf)
    /\ h_pc' = "parsed"
    /\ UNCHANGED <<h_buf, not_h>>

HeaderNext == HeaderParse

(***************************************************************************)
(* Properties of the chunk header parser                                   *)
(***************************************************************************)
\* The chunk type a low nibble stands for.
TypeOfNibble(n) ==
    CASE n = 0 -> "Riff"
      [] n = 1 -> "Array"
      [] n = 2 -> "SparseArray"
      [] n = 3 -> "Table"
      [] n = 4 -> "SparseTable"
      [] OTHER -> "invalid"

\* C5: with a tag that is not all zero, the chunk type comes from the low nibble
\* of the fifth byte alone; nibbles 0..4 give the five types with the tag, the
\* whole fifth byte as mode_byte and 5 bytes consumed, nibbles 5..15 the
\* invalid-chunk-type error.
C5_ChunkTypeFromLowNibble ==
    (h_pc = "parsed" /\ Len(h_buf) >= 5 /\ SubSeq(h_buf, 1, 4) # <<0, 0, 0, 0>>)
        => LET nibble == h_buf[5] % 16 IN
           IF nibble <= 4
           THEN h_res = HeaderOk(ChunkHeader(SubSeq(h_buf, 1, 4), TypeOfNibble(nibble), h_buf[5]), 5)
           ELSE h_res = HeaderErr("InvalidData(Invalid chunk type)")

\* A SparseTable header whose mode byte has a non-zero high nibble was parsed.
C5_Witness ==
    /\ h_pc = "parsed"
    /\ h_buf = <<77, 77, 0, 77, 164>>
    /\ h_res.tag = "Ok"
    /\ h_res.header.chunk_type = "SparseTable"
    /\ h_res.header.mode_byte = 164

\* C6: four zero tag bytes in a buffer of at least 5 bytes give an end marker
\* and 5 bytes consumed whatever the fifth byte is; a header parsed from any
\* other tag is no end marker; fewer than 5 bytes give a truncation error.
C6_EndMarker ==
    h_pc = "parsed"
        => /\ (Len(h_buf) >= 5 /\ SubSeq(h_buf, 1, 4) = <<0, 0, 0, 0>>)
                => (h_res.tag = "Ok" /\ is_end_marker(h_res.header) /\ h_res.used = 5)
           /\ (Len(h_buf) >= 5 /\ SubSeq(h_buf, 1, 4) # <<0, 0, 0, 0>> /\ h_res.tag = "Ok")
                => ~is_end_marker(h_res.header)
           /\ Len(h_buf) < 5
                => (h_res.tag = "Err" /\ IsTruncation(h_res.err))

\* An end marker whose fifth byte has the invalid low nibble 15 was accepted.
C6_Witness ==
    /\ h_pc = "parsed"
    /\ h_buf = <<0, 0, 0, 0, 255>>
    /\ h_res.tag = "Ok"
    /\ is_end_marker(h_res.header)

(***************************************************************************)
(* parse_riff_chunk applied to bounded inputs                              *)
(***************************************************************************)
\* RIFF bodies of up to MaxRiffLen bytes, the 3 length bytes included.
MaxRiffLen == 6

RiffBytes == {0, 1, 2, 255}

\* The mode bytes of a RIFF chunk: low nibble 0, every high nibble.
RiffModes == {16 * n : n \in 0..15}

RiffIdle ==
    /\ r_pc = "idle"
    /\ r_mode = 0
    /\ r_buf = <<>>
    /\ r_res = RiffNone

RiffInit ==
    /\ r_pc = "start"
    /\ r_mode \in RiffModes
    /\ r_buf \in SeqsUpTo(RiffBytes, MaxRiffLen)
    /\ r_res = RiffNone

\* parse_riff_chunk(header, r_buf) for a header with mode byte r_mode
RiffParse ==
    /\ r_pc = "start"
    /\ r_res' = parse_riff_chunk(ChunkHeader(<<82, 73, 70, 70>>, "Riff", r_mode), r_buf)
    /\ r_pc' = "parsed"
    /\ UNCHANGED <<r_mode, r_buf, not_r>>

RiffNext == RiffParse

(***************************************************************************)
(* Properties of the RIFF body parser                                      *)
(***************************************************************************)
\* The length announced by three big-endian bytes and a mode byte.
RiffAnnounced(buf, mode) ==
    buf[1] * 65536 + buf[2] * 256 + buf[3] + (mode \div 16) * 16777216

\* C10: the length is the 3-byte big-endian value plus the high nibble of the
\* mode byte times 2^24; the payload is the length bytes after the 3 length
\* bytes and 3 + length bytes are consumed; with fewer than 3 bytes, or fewer
\* than 3 + length, the parse fails with a truncation error and no payload.
C10_RiffLength ==
    r_pc = "parsed"
        => IF Len(r_buf) < 3 THEN r_res.tag = "Err" /\ IsTruncation(r_res.err) /\ r_res.data = <<>>
           ELSE LET length == RiffAnnounced(r_buf, r_mode) IN
                IF Len(r_buf) < 3 + length
                THEN r_res.tag = "Err" /\ IsTruncation(r_res.err) /\ r_res.data = <<>>
                ELSE r_res = RiffOk(SubSeq(r_buf, 4, 3 + length), 3 + length)

\* A two-byte payload was returned and the byte after it left alone.
C10_Witness ==
    /\ r_pc = "parsed"
    /\ r_mode = 0
    /\ r_buf = <<0, 0, 2, 255, 1, 2>>
    /\ r_res = RiffOk(<<255, 1>>, 5)

\* With a non-zero high nibble in the mode byte, a body that would be complete
\* on its 3 length bytes alone is refused as truncated.
C10_WitnessHighNibble ==
    /\ r_pc = "parsed"
    /\ r_mode = 16
    /\ r_buf = <<0, 0, 1, 255>>
    /\ r_res = RiffErr("BufferTooSmall")

(***************************************************************************)
(* parse_array_chunk and parse_table_chunk applied to bounded inputs, one  *)
(* iteration of the record loop at a time                                  *)
(***************************************************************************)
\* Record streams of up to MaxArrayLen bytes.
MaxArrayLen == 7

\* 0 is the sentinel, 1 a zero-length record, 2 a one-byte record; 2 and 5 are
\* the indices of the sparse records.
ArrayBytes == {0, 1, 2, 5}

ArrayBufs == SeqsUpTo(ArrayBytes, MaxArrayLen)

\* Table headers TableHeader::parse accepts: no field; the field I8 "A" and the
\* zero type byte.
TableHeads == {<<1>>, <<5, 1, 1, 65, 0>>}

\* Table headers it refuses, or runs off the end of.
TableBadHeads == {<<>>, <<0>>, <<2>>, <<3, 1>>, <<3, 12, 0>>, <<4, 1, 1, 255>>}

ArrayIdle ==
    /\ a_pc = "idle"
    /\ a_type = "none"
    /\ a_buf = <<>>
    /\ a_hdr = TableNone
    /\ a_st = LoopNone

ArrayInit ==
    \/ /\ a_pc = "loop"
       /\ a_type \in {"Array", "SparseArray"}
       /\ a_buf \in ArrayBufs
       /\ a_hdr = TableNone
       /\ a_st = LoopStart(0)
    \/ /\ a_pc = "header"
       /\ a_type \in {"Table", "SparseTable"}
       /\ a_buf \in {h \o b : h \in TableHeads, b \in ArrayBufs} \cup TableBadHeads
       /\ a_hdr = TableNone
       /\ a_st = LoopNone

\* The header parse_array_chunk and parse_table_chunk are handed.
ArrayHeader == ChunkHeader(<<65, 82, 82, 89>>, a_type, 0)

\* One iteration of the loop of parse_array_chunk.
ArrayIterate ==
    /\ a_pc = "loop"
    /\ a_type \in {"Array", "SparseArray"}
    /\ a_st' = array_iter(ArrayHeader, a_buf, a_st)
    /\ a_pc' = IF a_st'.status = "loop" THEN "loop" ELSE "done"
    /\ UNCHANGED <<a_type, a_buf, a_hdr, not_a>>

\* parse_table_chunk up to its record loop: TableHeader::parse.
TableParseHeader ==
    /\ a_pc = "header"
    /\ a_hdr' = TableHeader_parse(SliceFrom(a_buf, 0))
    /\ a_st' = table_after_header(a_hdr')
    /\ a_pc' = IF a_st'.status = "loop" THEN "loop" ELSE "done"
    /\ UNCHANGED <<a_type, a_buf, not_a>>

\* One iteration of the record loop of parse_table_chunk.
TableIterate ==
    /\ a_pc = "loop"
    /\ a_type \in {"Table", "SparseTable"}
    /\ a_st' = table_iter(ArrayHeader, a_buf, a_st)
    /\ a_pc' = IF a_st'.status = "loop" THEN "loop" ELSE "done"
    /\ UNCHANGED <<a_type, a_buf, a_hdr, not_a>>

ArrayNext == ArrayIterate \/ TableParseHeader \/ TableIterate

(***************************************************************************)
(* Properties of the record loops                                          *)
(***************************************************************************)
IsSparse == a_type \in {"SparseArray", "SparseTable"}

\* The size gamma the next iteration decodes, and the index gamma after it.
SizeGamma == decode_gamma(SliceFrom(a_buf, a_st.offset))
IndexGamma == decode_gamma(SliceFrom(a_buf, a_st.offset + SizeGamma.used))

\* The iteration that is taken emits exactly one record.
EmitsOne == /\ Len(a_st'.items) = Len(a_st.items) + 1
            /\ SubSeq(a_st'.items, 1, Len(a_st.items)) = a_st.items

Emitted == a_st'.items[Len(a_st'.items)]

\* C7: in a SparseArray and in a SparseTable chunk an iteration leaves the
\* records emitted so far as they are, in their order, and the record it emits
\* goes last and carries the index decoded from the gamma after its size.
C7_SparseKeepsFileOrder ==
    [][(a_pc = "loop" /\ IsSparse)
        => \/ a_st'.items = a_st.items
           \/ /\ EmitsOne
              /\ IndexGamma.tag = "Ok"
              /\ Emitted.index = AsUsize(IndexGamma.value)
              /\ Emitted.data =
                    SubSeq(a_buf, a_st.offset + SizeGamma.used + IndexGamma.used + 1,
                           a_st'.offset)]_vars

\* A SparseArray with records at the indices 5 then 2 was read as [5, 2].
C7_Witness ==
    /\ a_pc = "done"
    /\ a_type = "SparseArray"
    /\ a_buf = <<2, 5, 1, 2, 2, 1, 0>>
    /\ a_st.status = "Ok"
    /\ a_st.items = <<Item(5, <<1>>), Item(2, <<1>>)>>

\* The same for a SparseTable behind a table header.
C7_WitnessTable ==
    /\ a_pc = "done"
    /\ a_type = "SparseTable"
    /\ a_buf = <<5, 1, 1, 65, 0>> \o <<2, 5, 1, 2, 2, 1, 0>>
    /\ a_st.status = "Ok"
    /\ a_st.items = <<Item(5, <<1>>), Item(2, <<1>>)>>

\* C8: in an Array and in a Table chunk the implicit counter, 0 at first,
\* advances by exactly one per record read, zero-length records included, and a
\* record that is emitted carries the count of the records read before it.
C8_ImplicitIndexCountsRecords ==
    [][(a_pc = "loop" /\ ~IsSparse /\ a_st'.status = "loop")
        => /\ a_st'.implicit_index = a_st.implicit_index + 1
           /\ a_st'.items # a_st.items
                => (EmitsOne /\ Emitted.index = a_st.implicit_index)]_vars

\* C9: only a size_plus_one of 0 ends the loop, its bytes counted; 1 is a
\* zero-length record that emits nothing, keeps the loop going (past its
\* explicit index in a sparse chunk); n > 1 emits a record of n - 1 bytes; no
\* record emitted has empty data.
C9_SizeBias ==
    [][a_pc = "loop"
        => /\ a_st'.status = "Ok"
                <=> (SizeGamma.tag = "Ok" /\ AsUsize(SizeGamma.value) = 0)
           /\ a_st'.status = "Ok"
                => (a_st'.offset = a_st.offset + SizeGamma.used /\ a_st'.items = a_st.items)
           /\ (SizeGamma.tag = "Ok" /\ AsUsize(SizeGamma.value) = 1)
                => /\ a_st'.items = a_st.items
                   /\ ~IsSparse
                        => (a_st'.status = "loop" /\ a_st'.offset = a_st.offset + SizeGamma.used)
                   /\ (IsSparse /\ IndexGamma.tag = "Ok")
                        => /\ a_st'.status = "loop"
                           /\ a_st'.offset = a_st.offset + SizeGamma.used + IndexGamma.used
           /\ (SizeGamma.tag = "Ok" /\ AsUsize(SizeGamma.value) > 1 /\ a_st'.status = "loop")
                => (EmitsOne /\ Len(Emitted.data) = AsUsize(SizeGamma.value) - 1)
           /\ \A i \in DOMAIN a_st'.items : a_st'.items[i].data # <<>>]_vars

\* A zero-length sparse record, its index consumed, was followed by a record
\* that was parsed and emitted.
C9_Witness ==
    /\ a_pc = "done"
    /\ a_type = "SparseArray"
    /\ a_buf = <<1, 5, 2, 2, 5, 0>>
    /\ a_st.status = "Ok"
    /\ a_st.offset = 6
    /\ a_st.items = <<Item(2, <<5>>)>>

(***************************************************************************)
(* A savegame written with SavegameWriter and read back with               *)
(* SavegameReader                                                          *)
(***************************************************************************)
\* Up to MaxChunks chunks are added to a writer.
MaxChunks == 2

\* 295 is the version of the tests; 0 and 65535 are the ends of u16.
FileVersions == {0, 295, 65535}

\* "MAPS", "PLYR", the all-zero tag, a tag that is no UTF-8, and a UTF-8 tag
\* with a two-byte character.
FileTags ==
    {<<77, 65, 80, 83>>, <<80, 76, 89, 82>>, <<0, 0, 0, 0>>,
     <<255, 65, 66, 67>>, <<195, 169, 65, 66>>}

\* Payloads: none, one byte, and five zero bytes (the bytes of an end marker).
FilePayloads == {<<>>, <<7>>, <<0, 0, 0, 0, 0>>}

Added(tag, data) == [tag |-> tag, data |-> data]

FileIdle ==
    /\ f_pc = "idle"
    /\ f_writer = SavegameWriter(NoSavegameHeader, <<>>)
    /\ f_added = <<>>
    /\ f_file = BytesNone
    /\ f_reader = ReaderNone
    /\ f_chunks = ChunksNone

\* SavegameWriter::new(version, compression)
FileInit ==
    /\ f_pc = "writing"
    /\ \E version \in FileVersions, compression \in CompressionType :
            f_writer = SavegameWriter_new(version, compression)
    /\ f_added = <<>>
    /\ f_file = BytesNone
    /\ f_reader = ReaderNone
    /\ f_chunks = ChunksNone

\* writer.add_riff_chunk(tag, data)
AddRiffChunk ==
    /\ f_pc = "writing"
    /\ Len(f_added) < MaxChunks
    /\ \E tag \in FileTags, data \in FilePayloads :
            /\ f_writer' = add_riff_chunk(f_writer, tag, data)
            /\ f_added' = Append(f_added, Added(tag, data))
    /\ UNCHANGED <<f_pc, f_file, f_reader, f_chunks, not_f>>

\* writer.finalize()
Finalize ==
    /\ f_pc = "writing"
    /\ f_file' = finalize(f_writer)
    /\ f_pc' = "finalized"
    /\ UNCHANGED <<f_writer, f_added, f_reader, f_chunks, not_f>>

\* SavegameReader::new(&data) on the bytes finalize returned
ReaderNew ==
    /\ f_pc = "finalized"
    /\ f_file.tag = "Ok"
    /\ f_reader' = SavegameReader_new(f_file.bytes)
    /\ f_pc' = "opened"
    /\ UNCHANGED <<f_writer, f_added, f_file, f_chunks, not_f>>

\* reader.read_chunks()
ReadChunks ==
    /\ f_pc = "opened"
    /\ f_reader.tag = "Ok"
    /\ f_chunks' = read_chunks(f_reader.reader)
    /\ f_pc' = "read"
    /\ UNCHANGED <<f_writer, f_added, f_file, f_reader, not_f>>

FileNext == AddRiffChunk \/ Finalize \/ ReaderNew \/ ReadChunks

(***************************************************************************)
(* Properties of the whole-file round trip                                 *)
(***************************************************************************)
\* What the claim asks of the writer: compression None or Zlib and no all-zero
\* tag (every payload here is shorter than 2^24 bytes).
RoundTripCase ==
    /\ f_writer.header.compression \in {"None", "Zlib"}
    /\ \A i \in DOMAIN f_added : f_added[i].tag # <<0, 0, 0, 0>>

\* The tag is well-formed UTF-8.
IsUtf8(tag) == from_utf8(tag).tag = "Ok"

\* The chunks read back are the chunks added, in order, each with its tag as
\* its text and its payload as RIFF data.
ReadBackAsAdded ==
    /\ f_chunks.tag = "Ok"
    /\ Len(f_chunks.chunks) = Len(f_added)
    /\ \A i \in DOMAIN f_added :
            f_chunks.chunks[i] = Chunk(f_added[i].tag, "Riff", ChunkData_Riff(f_added[i].data))

\* finalize succeeds, SavegameReader::new succeeds on its bytes with the version
\* and the compression of the writer.
OpensAsWritten ==
    /\ f_pc = "finalized" => f_file.tag = "Ok"
    /\ f_pc \in {"opened", "read"}
            => /\ f_reader.tag = "Ok"
               /\ f_reader.reader.header.version = f_writer.header.version
               /\ f_reader.reader.header.compression = f_writer.header.compression

\* C1 as stated: for any version, compression None or Zlib and any chunks whose
\* tags are not all-zero, the file opens with that version and compression and
\* read_chunks returns exactly the chunks (tag_i, Riff(data_i)) in order.
C1_RoundTripAnyTag ==
    RoundTripCase
        => /\ OpensAsWritten
           /\ f_pc = "read" => ReadBackAsAdded

\* C1 as amended: the same for tags that are well-formed UTF-8 (as the ASCII
\* chunk names are); a tag that is not is read back with U+FFFD in the place of
\* each ill-formed part.
C1_RoundTripUtf8Tags ==
    (RoundTripCase /\ \A i \in DOMAIN f_added : IsUtf8(f_added[i].tag))
        => /\ OpensAsWritten
           /\ f_pc = "read" => ReadBackAsAdded

\* "MAPS" then "PLYR" were written under Zlib and read back in that order, the
\* second with a payload that looks like an end marker.
C1_Witness ==
    /\ f_pc = "read"
    /\ f_writer.header.compression = "Zlib"
    /\ f_writer.header.version = 295
    /\ f_added = <<Added(<<77, 65, 80, 83>>, <<7>>), Added(<<80, 76, 89, 82>>, <<0, 0, 0, 0, 0>>)>>
    /\ ReadBackAsAdded

(***************************************************************************)
(* TableHeader::parse, parse_table_chunk and read_chunks applied to the    *)
(* body of one table chunk                                                 *)
(***************************************************************************)
\* A table header is laid out from up to MaxFields field descriptors.
MaxFields == 2
\* Up to MaxTableRest bytes follow a header size of 0.
MaxTableRest == 2

\* I8; String with the list bit 0x10; Struct; I32 with bit 0x20 set.
FieldTypeBytes == {1, 26, 11, 37}

\* the empty key, "A", and a key with a two-byte character
FieldKeys == {<<>>, <<65>>, <<195, 169, 66>>}

FieldDescriptors == [type_byte : FieldTypeBytes, key : FieldKeys]

\* The bytes TableHeader::parse reads as one descriptor: the type byte, the
\* gamma of the key length, the key.
FieldBytes(d) == <<d.type_byte>> \o encode_gamma(U64FromNat(Len(d.key))) \o d.key

RECURSIVE FieldsBytes(_)
FieldsBytes(fields) ==
    IF fields = <<>> THEN <<>>
    ELSE FieldBytes(Head(fields)) \o FieldsBytes(Tail(fields))

\* The header region TableHeader::parse reads: the gamma of (bytes after it) + 1,
\* the descriptors, and with term the zero type byte that closes the list.
TableHeaderBytes(fields, term) ==
    LET body == FieldsBytes(fields) \o (IF term THEN <<0>> ELSE <<>>)
    IN  encode_gamma(U64FromNat(Len(body) + 1)) \o body

\* The gamma encodings of 0, in each of the five forms.
ZeroGammas == {<<0>>, <<128, 0>>, <<192, 0, 0>>, <<224, 0, 0, 0>>, <<240, 0, 0, 0, 0>>}

TableRestBytes == {0, 1, 65, 255}

\* The records after a header: none and no sentinel, the sentinel alone, one
\* record and the sentinel.
TableRecordTails == {<<>>, <<0>>, <<2, 7, 0>>}

NoTableChunk == [table_header |-> TableNone, st |-> LoopNone]

TableIdle ==
    /\ t_pc = "idle"
    /\ t_type = "none"
    /\ t_fields = <<>>
    /\ t_buf = <<>>
    /\ t_hdr = TableNone
    /\ t_chunk = NoTableChunk
    /\ t_chunks = ChunksNone

TableInit ==
    /\ t_pc = "start"
    /\ t_type \in {"Table", "SparseTable"}
    /\ \/ /\ t_fields \in SeqsUpTo(FieldDescriptors, MaxFields)
          /\ \E term \in BOOLEAN, tail \in TableRecordTails :
                t_buf = TableHeaderBytes(t_fields, term) \o tail
       \/ /\ t_fields = <<>>
          /\ \E zero \in ZeroGammas, rest \in SeqsUpTo(TableRestBytes, MaxTableRest) :
                t_buf = zero \o rest
    /\ t_hdr = TableNone
    /\ t_chunk = NoTableChunk
    /\ t_chunks = ChunksNone

\* The chunk header of the table chunk: the tag "TABL" and the mode byte 3 or 4.
TableModeByte == IF t_type = "Table" THEN 3 ELSE 4
TableChunkHeader == ChunkHeader(<<84, 65, 66, 76>>, t_type, TableModeByte)

\* The decompressed data of a savegame holding the table chunk alone.
TableStream == <<84, 65, 66, 76, TableModeByte>> \o t_buf \o <<0, 0, 0, 0, 0>>

\* TableHeader::parse(buf)
TableHeaderParse ==
    /\ t_pc = "start"
    /\ t_hdr' = TableHeader_parse(t_buf)
    /\ t_pc' = "header"
    /\ UNCHANGED <<t_type, t_fields, t_buf, t_chunk, t_chunks, not_t>>

\* parse_table_chunk(&header, buf)
TableChunkParse ==
    /\ t_pc = "header"
    /\ t_chunk' = parse_table_chunk(TableChunkHeader, t_buf)
    /\ t_pc' = "chunk"
    /\ UNCHANGED <<t_type, t_fields, t_buf, t_hdr, t_chunks, not_t>>

\* read_chunks() of a reader over the chunk
TableReadChunks ==
    /\ t_pc = "chunk"
    /\ t_chunks' = read_chunks(SavegameReader(SavegameHeader("None", 295, 0), TableStream))
    /\ t_pc' = "read"
    /\ UNCHANGED <<t_type, t_fields, t_buf, t_hdr, t_chunk, not_t>>

TableNext == TableHeaderParse \/ TableChunkParse \/ TableReadChunks

(***************************************************************************)
(* Properties of the table header                                          *)
(***************************************************************************)
\* The leading gamma-encoded header size decodes to 0.
HeaderSizeIsZero ==
    LET g == decode_gamma(t_buf) IN g.tag = "Ok" /\ g.value = U64(0, 0)

NoTableHeader == "InvalidData(Table has no header)"

\* C11: whenever the leading gamma of the header size decodes to 0, whatever
\* follows it, TableHeader::parse fails with the invalid-structure error, and
\* so do parse_table_chunk and read_chunks on the chunk: none returns a header
\* without fields.
C11_ZeroHeaderSizeFails ==
    HeaderSizeIsZero
        => /\ t_pc \in {"header", "chunk", "read"} => t_hdr = TableErr(NoTableHeader)
           /\ t_pc \in {"chunk", "read"}
                => /\ t_chunk.table_header = TableErr(NoTableHeader)
                   /\ t_chunk.st.status = "Err"
                   /\ t_chunk.st.err = NoTableHeader
                   /\ t_chunk.st.items = <<>>
           /\ t_pc = "read" => t_chunks = ChunksErr(NoTableHeader)

\* A header size of 0 in the two-byte form, followed by a byte, went through
\* the three functions.
C11_Witness ==
    /\ t_pc = "read"
    /\ t_type = "SparseTable"
    /\ t_buf = <<128, 0, 65>>
    /\ t_hdr.tag = "Err"
    /\ t_chunks.tag = "Err"

\* The buffer starts with a header laid out from t_fields.
WellFormedHeader ==
    \E term \in BOOLEAN :
        LET h == TableHeaderBytes(t_fields, term) IN
        Len(h) <= Len(t_buf) /\ SubSeq(t_buf, 1, Len(h)) = h

\* The data type the low nibble of a type byte names.
FieldTypeName(type_byte) ==
    LET names == <<"I8", "U8", "I16", "U16", "I32", "U32", "I64", "U64",
                   "StringId", "String", "Struct">>
    IN  names[type_byte % 16]

\* C12: for a well-formed header of n descriptors TableHeader::parse returns n
\* fields in stream order, the i-th with is_list = bit 0x10 of the i-th type
\* byte, data_type = the type its low nibble names, and key = the key bytes
\* after the gamma of the key length.
C12_FieldsInOrder ==
    (WellFormedHeader /\ t_pc \in {"header", "chunk", "read"})
        => /\ t_hdr.tag = "Ok"
           /\ Len(t_hdr.fields) = Len(t_fields)
           /\ \A i \in DOMAIN t_fields :
                /\ t_hdr.fields[i].is_list = ((t_fields[i].type_byte \div 16) % 2 = 1)
                /\ t_hdr.fields[i].data_type = FieldTypeName(t_fields[i].type_byte)
                /\ t_hdr.fields[i].key = t_fields[i].key

\* Two different descriptors, the list flag set on the first only, were parsed.
C12_Witness ==
    /\ t_pc = "header"
    /\ t_fields = <<[type_byte |-> 26, key |-> <<195, 169, 66>>], [type_byte |-> 37, key |-> <<>>]>>
    /\ t_hdr.tag = "Ok"
    /\ t_hdr.fields = <<TableField("String", <<195, 169, 66>>, TRUE), TableField("I32", <<>>, FALSE)>>

(***************************************************************************)
(* SavegameHeader::write and SavegameHeader::parse applied to bounded      *)
(* inputs                                                                  *)
(***************************************************************************)
\* The bytes the versions and flags are made of: the ends of a byte and the
\* two values around its sign bit.
U16Bytes == {0, 1, 127, 128, 255}

\* 16-bit values: every pair of those bytes, and the version 295 of the tests.
U16Samples == {hi * 256 + lo : hi \in U16Bytes, lo \in U16Bytes} \cup {295}

\* The letters of the four magics and of "NOPE".
MagicLetters == {79, 84, 78, 90, 88, 68, 80, 69}

\* Raw headers: every 4-letter magic followed by a version and flags, by a
\* version alone, or by nothing; and buffers too short to hold a magic.
RawHeaders ==
    {<<a, b, c, d>> \o t : a \in MagicLetters, b \in MagicLetters, c \in MagicLetters,
                           d \in MagicLetters, t \in {<<>>, <<1, 39>>, <<1, 39, 0, 0>>, <<255, 255, 128, 0>>}}
    \cup {<<>>, <<79>>, <<79, 84, 84>>}

SaveHeaderNone == [tag |-> "None", header |-> NoSavegameHeader, err |-> "none"]

SaveHeaderIdle ==
    /\ s_pc = "idle"
    /\ s_header = NoSavegameHeader
    /\ s_buf = <<>>
    /\ s_res = SaveHeaderNone

SaveHeaderInit ==
    \/ /\ s_pc = "start"
       /\ \E compression \in CompressionType, version \in U16Samples, flags \in U16Samples :
            s_header = SavegameHeader(compression, version, flags)
       /\ s_buf = <<>>
       /\ s_res = SaveHeaderNone
    \/ /\ s_pc = "raw"
       /\ s_header = NoSavegameHeader
       /\ s_buf \in RawHeaders
       /\ s_res = SaveHeaderNone

\* header.write()
SaveHeaderWrite ==
    /\ s_pc = "start"
    /\ s_buf' = SavegameHeader_write(s_header)
    /\ s_pc' = "written"
    /\ UNCHANGED <<s_header, s_res, not_s>>

\* SavegameHeader::parse(&buf)
SaveHeaderParse ==
    /\ s_pc \in {"written", "raw"}
    /\ s_res' = SavegameHeader_parse(s_buf)
    /\ s_pc' = "parsed"
    /\ UNCHANGED <<s_header, s_buf, not_s>>

SaveHeaderNext == SaveHeaderWrite \/ SaveHeaderParse

(***************************************************************************)
(* Properties of the savegame header                                       *)
(***************************************************************************)
\* The magic of each compression: OTTN, OTTZ, OTTX, OTTD.
MagicOf(compression) ==
    CASE compression = "None" -> <<79, 84, 84, 78>>
      [] compression = "Zlib" -> <<79, 84, 84, 90>>
      [] compression = "Lzma" -> <<79, 84, 84, 88>>
      [] compression = "Lzo" -> <<79, 84, 84, 68>>

\* The header was handed to write (it is not a raw buffer that is parsed).
HeaderWasWritten == s_pc \in {"written", "parsed"} /\ s_header # NoSavegameHeader

\* C13: for every compression and every 16-bit version and flags, write()
\* yields exactly 8 bytes, the magic of the compression, the version big-endian,
\* the flags big-endian, and parse(h.write()) returns a header equal to h.
C13_HeaderRoundTrip ==
    HeaderWasWritten
        => /\ Len(s_buf) = 8
           /\ s_buf = MagicOf(s_header.compression)
                        \o <<s_header.version \div 256, s_header.version % 256,
                             s_header.flags \div 256, s_header.flags % 256>>
           /\ s_pc = "parsed" => s_res = FileHeaderOk(s_header)

\* The header Lzma, 0x7F80, 0x0001 was written and parsed back.
C13_Witness ==
    /\ s_pc = "parsed"
    /\ s_header = SavegameHeader("Lzma", 32640, 1)
    /\ s_buf = <<79, 84, 84, 88, 127, 128, 0, 1>>
    /\ s_res = FileHeaderOk(s_header)

KnownMagics == {MagicOf(c) : c \in CompressionType}

\* The compression whose magic m is.
CompressionOfMagic(m) == CHOOSE c \in CompressionType : MagicOf(c) = m

\* C14: parse maps OTTN, OTTZ, OTTX, OTTD to None, Zlib, Lzma, Lzo, the inverse
\* of the mapping of write(), in which no two compressions share a magic; for
\* every other 4-byte magic it fails with the invalid-magic error and returns
\* no header.
C14_MagicBijection ==
    /\ \A c, d \in CompressionType : MagicOf(c) = MagicOf(d) => c = d
    /\ HeaderWasWritten
        => /\ SubSeq(s_buf, 1, 4) = MagicOf(s_header.compression)
           /\ s_pc = "parsed"
                => s_res.tag = "Ok" /\ s_res.header.compression = s_header.compression
    /\ (s_pc = "parsed" /\ ~HeaderWasWritten /\ Len(s_buf) >= 4)
        => IF SubSeq(s_buf, 1, 4) \in KnownMagics
           THEN Len(s_buf) >= 8
                    => /\ s_res.tag = "Ok"
                       /\ s_res.header.compression = CompressionOfMagic(SubSeq(s_buf, 1, 4))
           ELSE s_res = FileHeaderErr("InvalidMagic")

\* The raw header "NOPE" with a version and flags was refused for its magic.
C14_Witness ==
    /\ s_pc = "parsed"
    /\ s_buf = <<78, 79, 80, 69, 1, 39, 0, 0>>
    /\ s_res = FileHeaderErr("InvalidMagic")

\* The raw header "OTTX" was parsed as Lzma.
C14_WitnessKnown ==
    /\ s_pc = "parsed"
    /\ s_header = NoSavegameHeader
    /\ s_buf = <<79, 84, 84, 88, 255, 255, 128, 0>>
    /\ s_res = FileHeaderOk(SavegameHeader("Lzma", 65535, 32768))

(***************************************************************************)
(* The length field add_riff_chunk writes and parse_riff_chunk reads, for  *)
(* payload lengths no payload of the file model reaches                    *)
(***************************************************************************)
\* Lengths up to (MaxLengthHigh + 1) * 2^24 - 1: bits 24 and up of the length
\* run from 0 to MaxLengthHigh.
MaxLengthHigh == 17

\* The low 24 bits of the lengths: around each byte boundary.
LengthLows == {0, 1, 255, 256, 65535, 65536, W24 - 1}

RiffLengths == {high * W24 + low : high \in 0..MaxLengthHigh, low \in LengthLows}

LengthIdle ==
    /\ l_pc = "idle"
    /\ l_length = 0
    /\ l_mode = 0
    /\ l_len3 = <<>>
    /\ l_res = 0

LengthInit ==
    /\ l_pc = "start"
    /\ l_length \in RiffLengths
    /\ l_mode = 0
    /\ l_len3 = <<>>
    /\ l_res = 0

\* add_riff_chunk for a payload of l_length bytes: the mode byte and the 3
\* length bytes it pushes.
LengthWrite ==
    /\ l_pc = "start"
    /\ l_mode' = riff_mode_byte(l_length)
    /\ l_len3' = riff_length_bytes(l_length)
    /\ l_pc' = "written"
    /\ UNCHANGED <<l_length, l_res, not_l>>

\* parse_riff_chunk on those bytes: the length it takes the body to have.
LengthParse ==
    /\ l_pc = "written"
    /\ l_res' = riff_length(read_u24(BigEndianReader_new(l_len3)).value, l_mode)
    /\ l_pc' = "parsed"
    /\ UNCHANGED <<l_length, l_mode, l_len3, not_l>>

LengthNext == LengthWrite \/ LengthParse

(***************************************************************************)
(* Properties of the writer and the reader under each compression          *)
(***************************************************************************)
\* C16: a file finalized with compression Lzma is compressed with the encoder
\* of the container the reader's Lzma decoder takes (XZ), so
\* SavegameReader::new succeeds on it and read_chunks returns the RIFF chunks
\* that were added, in order.
C16_LzmaRoundTrip ==
    (/\ f_writer.header.compression = "Lzma"
     /\ \A i \in DOMAIN f_added : f_added[i].tag # <<0, 0, 0, 0>> /\ IsUtf8(f_added[i].tag))
        => /\ OpensAsWritten
           /\ f_pc = "read" => ReadBackAsAdded

(***************************************************************************)
(* Lzo: a writer configured with it, and files with the magic OTTD         *)
(***************************************************************************)
\* The payload after the header of an OTTD file holds up to MaxLzoPayload bytes.
MaxLzoPayload == 3

\* 0 and 255; 120 and 156 as a zlib stream starts; 1.
LzoPayloadBytes == {0, 1, 120, 156, 255}

\* Files with the magic OTTD: a whole header and a payload, and two that end
\* inside the header.
LzoFiles ==
    {MagicOTTD \o u16_to_be_bytes(version) \o <<0, 0>> \o payload :
        version \in FileVersions, payload \in SeqsUpTo(LzoPayloadBytes, MaxLzoPayload)}
    \cup {MagicOTTD, MagicOTTD \o <<1, 39, 0>>}

LzoInit ==
    /\ \/ /\ f_pc = "writing"
          /\ \E version \in FileVersions : f_writer = SavegameWriter_new(version, "Lzo")
          /\ f_file = BytesNone
       \/ /\ f_pc = "finalized"
          /\ f_writer = SavegameWriter(NoSavegameHeader, <<>>)
          /\ \E file \in LzoFiles : f_file = BytesOk(file)
    /\ f_added = <<>>
    /\ f_reader = ReaderNone
    /\ f_chunks = ChunksNone

LzoNext == AddRiffChunk \/ Finalize \/ ReaderNew

UnsupportedLzo == "UnsupportedCompression(Lzo)"

\* The file at hand has the magic OTTD and a whole 8-byte header.
IsLzoFile ==
    /\ f_file.tag = "Ok"
    /\ Len(f_file.bytes) >= 8
    /\ SubSeq(f_file.bytes, 1, 4) = <<79, 84, 84, 68>>

\* C15: SavegameHeader::parse accepts the magic OTTD and reports Lzo, while
\* SavegameReader::new on a file with that magic fails with the
\* unsupported-compression error whatever the payload is and produces no
\* reader, and finalize with compression Lzo fails with the same error
\* whatever chunks were added.
C15_LzoUnsupported ==
    /\ IsLzoFile
        => /\ SavegameHeader_parse(f_file.bytes).tag = "Ok"
           /\ SavegameHeader_parse(f_file.bytes).header.compression = "Lzo"
           /\ f_pc = "opened" => f_reader = ReaderErr(UnsupportedLzo)
    /\ (f_writer.header.compression = "Lzo" /\ f_pc = "finalized")
        => f_file = BytesErr(UnsupportedLzo)

\* An OTTD file whose payload starts as a zlib stream does was refused.
C15_Witness ==
    /\ f_pc = "opened"
    /\ f_file.bytes = <<79, 84, 84, 68, 1, 39, 0, 0, 120, 156, 1>>
    /\ f_reader = ReaderErr(UnsupportedLzo)

\* A writer with compression Lzo and two chunks was finalized.
C15_WitnessWriter ==
    /\ f_pc = "finalized"
    /\ f_writer.header.compression = "Lzo"
    /\ Len(f_added) = 2
    /\ f_file = BytesErr(UnsupportedLzo)

(***************************************************************************)
(* Files that go on after the end marker, and files that end before it     *)
(***************************************************************************)
\* What follows the end marker of a file: a whole RIFF chunk and a marker, a
\* header with the chunk type 15, a RIFF chunk whose body ends early, a table
\* chunk whose header ends early, one byte, a second marker.
TrailingData ==
    {<<77, 65, 80, 83, 0, 0, 0, 1, 9, 0, 0, 0, 0, 0>>,
     <<88, 88, 88, 88, 15, 1, 2>>,
     <<88, 88, 88, 88, 0, 0, 0, 9, 1>>,
     <<88, 88, 88, 88, 3, 4>>,
     <<255>>,
     <<0, 0, 0, 0, 0>>}

\* Fewer than 5 bytes where a chunk header starts.
PartialHeaders ==
    {<<>>, <<77>>, <<77, 65>>, <<77, 65, 80>>, <<77, 65, 80, 83>>, <<0>>, <<0, 0, 0, 0>>}

\* A whole body for each chunk type, by mode byte: a RIFF body of 2 bytes; one
\* record and the sentinel, with an index in the sparse types; the table
\* bodies start with the header of the field I8 "A".
WholeBody(mode_byte) ==
    CASE mode_byte = 0 -> <<0, 0, 2, 7, 8>>
      [] mode_byte = 1 -> <<2, 7, 0>>
      [] mode_byte = 2 -> <<2, 5, 7, 0>>
      [] mode_byte = 3 -> <<4, 1, 1, 65, 2, 7, 0>>
      [] mode_byte = 4 -> <<4, 1, 1, 65, 2, 5, 7, 0>>

\* A whole chunk header "XXXX" and a body that ends before it is whole.
BrokenChunks ==
    UNION {{<<88, 88, 88, 88, mode_byte>> \o SubSeq(WholeBody(mode_byte), 1, k) :
                k \in 0..(Len(WholeBody(mode_byte)) - 1)} : mode_byte \in 0..4}

\* SavegameWriter::new(295, CompressionType::None)
TailInit ==
    /\ f_pc = "writing"
    /\ f_writer = SavegameWriter_new(295, "None")
    /\ f_added = <<>>
    /\ f_file = BytesNone
    /\ f_reader = ReaderNone
    /\ f_chunks = ChunksNone

\* The file as the writer left it.
FileIsIntact == f_pc = "finalized" /\ f_file = finalize(f_writer)

\* The header and the chunks of the file, without the end marker.
FileBeforeMarker == SavegameHeader_write(f_writer.header) \o f_writer.chunks

\* Something is written after the end of the file.
FileAppend ==
    /\ FileIsIntact
    /\ \E extra \in TrailingData : f_file' = BytesOk(f_file.bytes \o extra)
    /\ UNCHANGED <<f_pc, f_writer, f_added, f_reader, f_chunks, not_f>>

\* The file ends early: at the place of the end marker there is part of a chunk
\* header, or a chunk header and part of its body.
FileCut ==
    /\ FileIsIntact
    /\ \E rest \in PartialHeaders \cup BrokenChunks :
            f_file' = BytesOk(FileBeforeMarker \o rest)
    /\ UNCHANGED <<f_pc, f_writer, f_added, f_reader, f_chunks, not_f>>

TailNext == AddRiffChunk \/ Finalize \/ FileAppend \/ FileCut \/ ReaderNew \/ ReadChunks

(***************************************************************************)
(* Properties of read_chunks at the end of the data                        *)
(***************************************************************************)
\* The number of chunks added before the first chunk with an all-zero tag.
RECURSIVE AddedBeforeZeroTag(_)
AddedBeforeZeroTag(n) ==
    IF n < Len(f_added) /\ f_added[n + 1].tag # <<0, 0, 0, 0>>
    THEN AddedBeforeZeroTag(n + 1)
    ELSE n

\* read_chunks returned the first n chunks added, in order.
ReadBackFirst(n) ==
    /\ f_chunks.tag = "Ok"
    /\ Len(f_chunks.chunks) = n
    /\ \A i \in 1..n :
        /\ f_chunks.chunks[i].chunk_type = "Riff"
        /\ f_chunks.chunks[i].data = ChunkData_Riff(f_added[i].data)
        /\ IsUtf8(f_added[i].tag) => f_chunks.chunks[i].tag = f_added[i].tag

\* The file is the file the writer left, with anything or nothing after it.
FileGoesOn ==
    LET whole == FileBeforeMarker \o <<0, 0, 0, 0, 0>> IN
    /\ f_file.tag = "Ok"
    /\ Len(f_file.bytes) >= Len(whole)
    /\ SubSeq(f_file.bytes, 1, Len(whole)) = whole

\* C17: read_chunks returns exactly the chunks whose headers precede the first
\* all-zero tag at a chunk-header position, in order; whatever follows that
\* marker (further chunks, an invalid chunk type, truncated bodies) neither
\* changes the result nor produces an error.
C17_StopsAtFirstEndMarker ==
    (f_pc = "read" /\ FileGoesOn) => ReadBackFirst(AddedBeforeZeroTag(0))

\* A chunk was read from a file that goes on, after its end marker, with a
\* header of chunk type 15.
C17_Witness ==
    /\ f_pc = "read"
    /\ f_added = <<Added(<<77, 65, 80, 83>>, <<7>>)>>
    /\ f_file.bytes = FileBeforeMarker \o <<0, 0, 0, 0, 0>> \o <<88, 88, 88, 88, 15, 1, 2>>
    /\ ReadBackFirst(1)

\* What the file holds at the place of the end marker.
FileRest == SubSeq(f_file.bytes, Len(FileBeforeMarker) + 1, Len(f_file.bytes))

\* The file holds the chunks added, none with an all-zero tag, and then ends
\* without an end marker.
FileEndsEarly ==
    /\ f_file.tag = "Ok"
    /\ Len(f_file.bytes) >= Len(FileBeforeMarker)
    /\ SubSeq(f_file.bytes, 1, Len(FileBeforeMarker)) = FileBeforeMarker
    /\ \A i \in DOMAIN f_added : f_added[i].tag # <<0, 0, 0, 0>>

\* C18: when fewer than 5 bytes remain at a chunk-header position and no end
\* marker was seen, read_chunks returns Ok with the chunks parsed so far; when
\* the data ends inside a chunk body, after a whole 5-byte chunk header,
\* read_chunks returns an error and no chunk list.
C18_TruncatedTail ==
    (f_pc = "read" /\ FileEndsEarly)
        => /\ FileRest \in PartialHeaders => ReadBackFirst(Len(f_added))
           /\ FileRest \in BrokenChunks => f_chunks.tag = "Err" /\ f_chunks.chunks = <<>>

(***************************************************************************)
(* Properties of add_riff_chunk                                            *)
(***************************************************************************)
\* Bits 24..27 of the length in the high nibble, the low nibble 0 (Riff).
ExpectedModeByte(length) ==
    IF length < Pow2(24) THEN 0 ELSE ((length \div Pow2(24)) % 16) * 16

\* The low 24 bits of the length, big-endian.
ExpectedLengthBytes(length) ==
    <<(length \div 65536) % 256, (length \div 256) % 256, length % 256>>

\* The call add_riff_chunk(tag, data) that was just made.
LastAdded == f_added'[Len(f_added')]

\* C19: add_riff_chunk(tag, data) appends exactly tag, one mode byte, the low
\* 24 bits of the length as 3 big-endian bytes, then the payload, and changes
\* nothing else in the writer; the mode byte is 0 for a length below 2^24 and
\* otherwise carries bits 24..27 of the length in its high nibble, its low
\* nibble being 0; for every length below 2^28 the length parse_riff_chunk
\* reconstructs from that mode byte and those 3 bytes is the length.
C19_RiffLengthField ==
    [][/\ f_added' # f_added
            => /\ f_writer'.chunks =
                    f_writer.chunks \o LastAdded.tag
                        \o <<ExpectedModeByte(Len(LastAdded.data))>>
                        \o ExpectedLengthBytes(Len(LastAdded.data))
                        \o LastAdded.data
               /\ f_writer'.header = f_writer.header
       /\ (l_pc = "start" /\ l_pc' = "written")
            => /\ l_mode' = ExpectedModeByte(l_length)
               /\ l_mode' % 16 = 0
               /\ l_len3' = ExpectedLengthBytes(l_length)
       /\ (l_pc = "written" /\ l_pc' = "parsed" /\ l_length < Pow2(28))
            => l_res' = l_length]_vars

\* A chunk was appended to the writer, and the length 5 * 2^24 + 2^16 went
\* through the mode byte 0x50 and the bytes 01 00 00 and back.
C19_Witness ==
    /\ f_added = <<Added(<<77, 65, 80, 83>>, <<7>>)>>
    /\ f_writer.chunks = <<77, 65, 80, 83, 0, 0, 0, 1, 7>>
    /\ l_pc = "parsed"
    /\ l_length = 5 * W24 + 65536
    /\ l_mode = 80
    /\ l_len3 = <<1, 0, 0>>
    /\ l_res = l_length

(***************************************************************************)
(* Properties of finalize                                                  *)
(***************************************************************************)
\* The encoding of one RIFF chunk with a payload shorter than 2^24 bytes.
ChunkEncoding(a) == a.tag \o <<0>> \o ExpectedLengthBytes(Len(a.data)) \o a.data

\* The encodings of the first n chunks added, in call order.
RECURSIVE ChunkEncodings(_)
ChunkEncodings(n) ==
    IF n = 0 THEN <<>> ELSE ChunkEncodings(n - 1) \o ChunkEncoding(f_added[n])

\* The sum of 8 + payload length over the first n chunks added.
RECURSIVE EncodedLength(_)
EncodedLength(n) ==
    IF n = 0 THEN 0 ELSE EncodedLength(n - 1) + 8 + Len(f_added[n].data)

\* The chunk stream: the encodings, then one 5-byte all-zero end marker.
ExpectedStream == ChunkEncodings(Len(f_added)) \o <<0, 0, 0, 0, 0>>

\* What follows the 8-byte header of the finalized file.
FilePayload == SubSeq(f_file.bytes, 9, Len(f_file.bytes))

\* C20: after any sequence of add_riff_chunk calls the bytes finalize()
\* compresses are the chunk encodings in call order and then exactly one 5-byte
\* all-zero end marker; the result starts with the 8-byte header (the magic of
\* the compression, the version given to new, flags 0); with compression None
\* the file is the header, the encodings and 5 zero bytes, 13 + the sum of
\* (8 + payload length) bytes long.
C20_FinalizeLayout ==
    (f_pc \in {"finalized", "opened", "read"} /\ f_file.tag = "Ok")
        => /\ Len(f_file.bytes) >= 8
           /\ SubSeq(f_file.bytes, 1, 8) =
                MagicOf(f_writer.header.compression)
                    \o <<f_writer.header.version \div 256, f_writer.header.version % 256, 0, 0>>
           /\ f_writer.header.compression = "None"
                => /\ FilePayload = ExpectedStream
                   /\ Len(f_file.bytes) = 13 + EncodedLength(Len(f_added))
           /\ f_writer.header.compression = "Zlib"
                => zlib_decompress(FilePayload) = BytesOk(ExpectedStream)
           /\ f_writer.header.compression = "Lzma"
                => FilePayload = lzma_compress(ExpectedStream)

\* Two chunks, of 1 and 5 payload bytes, were finalized without compression
\* into 13 + 9 + 13 bytes.
C20_Witness ==
    /\ f_pc = "finalized"
    /\ f_writer.header.compression = "None"
    /\ f_added = <<Added(<<77, 65, 80, 83>>, <<7>>), Added(<<80, 76, 89, 82>>, <<0, 0, 0, 0, 0>>)>>
    /\ Len(f_file.bytes) = 35
    /\ FilePayload = ExpectedStream

\* Two chunks were finalized under Zlib into a file that starts with OTTZ.
C20_WitnessZlib ==
    /\ f_pc = "finalized"
    /\ f_writer.header.compression = "Zlib"
    /\ Len(f_added) = 2
    /\ SubSeq(f_file.bytes, 1, 4) = <<79, 84, 84, 90>>

(***************************************************************************)
(* The big-endian reader applied to bounded slices: a reader is made over  *)
(* a slice and then any read is called on it, any number of times.         *)
(***************************************************************************)
MaxEndianLen == 10

\* byte i of the slice of pattern p: mixed bytes, zeros, the most negative
\* value, the most positive value, all ones
EndianByte(p, i) ==
    CASE p = 1 -> (i * 37 + 218) % 256
      [] p = 2 -> 0
      [] p = 3 -> IF i = 1 THEN 128 ELSE 0
      [] p = 4 -> IF i = 1 THEN 127 ELSE 255
      [] OTHER -> 255

EndianBufs == {[i \in 1..n |-> EndianByte(p, i)] : p \in 1..5, n \in 0..MaxEndianLen}

\* the const parameter N of the read_exact calls
ExactWidths == {0, 5, 9}

NoEndianReader == [buf |-> <<>>, pos |-> 0]
EndianOp(name, width) == [name |-> name, width |-> width]

EndianIdle == e_reader = NoEndianReader /\ e_op = EndianOp("idle", 0) /\ e_res = <<>>

EndianInit ==
    \E buf \in EndianBufs :
        /\ e_reader = BigEndianReader_new(buf)
        /\ e_op = EndianOp("none", 0)
        /\ e_res = <<>>

\* one call: the reader is left as the call leaves it, the result is kept
EndianCall(name, width, r) ==
    /\ e_op.name # "idle"
    /\ e_reader' = r.reader
    /\ e_op' = EndianOp(name, width)
    /\ e_res' = [tag |-> r.tag, value |-> r.value, err |-> r.err]
    /\ UNCHANGED not_e

ReadU8 == EndianCall("read_u8", 1, read_u8(e_reader))
ReadI8 == EndianCall("read_i8", 1, read_i8(e_reader))
ReadU16 == EndianCall("read_u16", 2, read_u16(e_reader))
ReadI16 == EndianCall("read_i16", 2, read_i16(e_reader))
ReadU24 == EndianCall("read_u24", 3, read_u24(e_reader))
ReadU32 == EndianCall("read_u32", 4, read_u32(e_reader))
ReadI32 == EndianCall("read_i32", 4, read_i32(e_reader))
ReadU64 == EndianCall("read_u64", 8, read_u64(e_reader))
ReadI64 == EndianCall("read_i64", 8, read_i64(e_reader))

ReadExact ==
    \E N \in ExactWidths :
        LET r == read_exact(e_reader, N) IN
        /\ e_op.name # "idle"
        /\ e_reader' = r.reader
        /\ e_op' = EndianOp("read_exact", N)
        /\ e_res' = [tag |-> r.tag, value |-> r.bytes, err |-> r.err]
        /\ UNCHANGED not_e

EndianNext ==
    \/ ReadU8 \/ ReadI8 \/ ReadU16 \/ ReadI16 \/ ReadU24
    \/ ReadU32 \/ ReadI32 \/ ReadU64 \/ ReadI64 \/ ReadExact

(***************************************************************************)
(* C21: the cursor contract of BigEndianReader                             *)
(***************************************************************************)
Bytes2(v) == <<v \div 256, v % 256>>
Bytes3(v) == <<v \div 65536, (v \div 256) % 256, v % 256>>

\* the w bytes, most significant first, of the value a read of that name returned
BigEndianBytes(name, value) ==
    CASE name = "read_u8" -> <<value>>
      [] name = "read_i8" -> <<(value + 256) % 256>>
      [] name = "read_u16" -> Bytes2(value)
      [] name = "read_i16" -> Bytes2((value + 65536) % 65536)
      [] name = "read_u24" -> Bytes3(value)
      [] name = "read_u32" -> <<value.hi>> \o Bytes3(value.lo)
      [] name = "read_i32" -> <<((value \div W24) + 256) % 256>> \o Bytes3(value % W24)
      [] name = "read_u64" -> Bytes2(value.top) \o Bytes3(value.hi) \o Bytes3(value.lo)
      [] name = "read_i64" ->
            Bytes2((value.top + 65536) % 65536) \o Bytes3(value.hi) \o Bytes3(value.lo)
      [] OTHER -> value

CursorInSlice(reader) ==
    /\ position(reader) + remaining(reader) = Len(reader.buf)
    /\ position(reader) <= Len(reader.buf)

C21_Read ==
    LET w == e_op'.width
        pos == position(e_reader)
    IN
    /\ CursorInSlice(e_reader')
    /\ e_reader'.buf = e_reader.buf
    /\ (e_res'.tag = "Ok") <=> (remaining(e_reader) >= w)
    /\ e_res'.tag = "Ok" =>
          /\ position(e_reader') = pos + w
          /\ BigEndianBytes(e_op'.name, e_res'.value) = SubSeq(e_reader.buf, pos + 1, pos + w)
    /\ e_res'.tag # "Ok" =>
          /\ e_res'.tag = "Err"
          /\ e_res'.err = "UnexpectedEof"
          /\ position(e_reader') = pos

\* C21: after any sequence of reads, position() + remaining() is the slice
\* length and position() is at most it; a read of width w succeeds exactly
\* when remaining() >= w, then returns the big-endian value of the next w
\* bytes and advances position() by w; otherwise it fails with UnexpectedEof
\* and the cursor stays where it was.
C21_CursorContract == [](CursorInSlice(e_reader)) /\ [][C21_Read]_vars

\* a negative i32 read in full after an earlier read has moved the cursor
C21_Witness ==
    /\ e_op.name = "read_i32"
    /\ e_res.tag = "Ok"
    /\ e_res.value < 0
    /\ position(e_reader) > 4

\* a read that fails because fewer bytes remain than it needs, some remaining
C21_WitnessEof ==
    /\ e_op.name = "read_u64"
    /\ e_res.tag = "Err"
    /\ remaining(e_reader) > 0

(***************************************************************************)
(* TableHeader::parse applied to raw header bytes: the header of any list  *)
(* of descriptors with any type byte, whole, cut short at any byte, or     *)
(* declaring fewer bytes than its descriptors take                         *)
(***************************************************************************)
\* one descriptor with each of the 256 type bytes, next to the lists of the
\* table harness
RawFieldLists ==
    SeqsUpTo(FieldDescriptors, MaxFields)
        \cup {<<[type_byte |-> type_byte, key |-> <<65>>]>> : type_byte \in 0..255}

\* the header of fields declaring a size smaller by short than it is
ShortHeaderBytes(fields, term, short) ==
    LET body == FieldsBytes(fields) \o (IF term THEN <<0>> ELSE <<>>)
    IN  encode_gamma(U64FromNat(Len(body) + 1 - short)) \o body

RawTableBufs(fields) ==
    UNION {{SubSeq(TableHeaderBytes(fields, term), 1, cut) :
                cut \in 0..Len(TableHeaderBytes(fields, term))}
           \cup {TableHeaderBytes(fields, term) \o tail : tail \in TableRecordTails}
           \cup (IF Len(FieldsBytes(fields)) >= 2
                 THEN {ShortHeaderBytes(fields, term, 2)} ELSE {})
           : term \in BOOLEAN}

TableRawInit ==
    /\ t_pc = "start"
    /\ t_type \in {"Table", "SparseTable"}
    /\ t_fields \in RawFieldLists
    /\ t_buf \in RawTableBufs(t_fields)
    /\ t_hdr = TableNone
    /\ t_chunk = NoTableChunk
    /\ t_chunks = ChunksNone

\* The decompressed data of a savegame that ends with the bytes of t_buf.
TableRawStream == <<84, 65, 66, 76, TableModeByte>> \o t_buf

\* SavegameReader::read_chunks on that data
TableReadRaw ==
    /\ t_pc = "chunk"
    /\ t_chunks' = read_chunks(SavegameReader(SavegameHeader("None", 295, 0), TableRawStream))
    /\ t_pc' = "read"
    /\ UNCHANGED <<t_type, t_fields, t_buf, t_hdr, t_chunk, not_t>>

TableRawNext == TableHeaderParse \/ TableChunkParse \/ TableReadRaw

(***************************************************************************)
(* C22: a table header cut short                                           *)
(***************************************************************************)
\* t_buf is the header of t_fields, all of a known type, with at least its
\* last byte missing
HeaderCutShort ==
    /\ \A i \in DOMAIN t_fields : t_fields[i].type_byte % 16 \in 1..11
    /\ \E term \in BOOLEAN :
          LET h == TableHeaderBytes(t_fields, term) IN
          Len(t_buf) < Len(h) /\ t_buf = SubSeq(h, 1, Len(t_buf))

TruncationErrors == {"BufferTooSmall", "UnexpectedEof"}

\* C22: on a table header whose bytes end before its declared end, or inside
\* a key, TableHeader::parse returns a truncation error, and so do
\* parse_table_chunk and read_chunks; none of them panics.
C22_TruncatedHeaderFails ==
    HeaderCutShort =>
        /\ t_pc \in {"header", "chunk", "read"} =>
              t_hdr.tag = "Err" /\ t_hdr.err \in TruncationErrors
        /\ t_pc \in {"chunk", "read"} =>
              t_chunk.table_header.tag = "Err" /\ t_chunk.table_header.err \in TruncationErrors
        /\ t_pc = "read" =>
              t_chunks.tag = "Err" /\ t_chunks.err \in TruncationErrors

(***************************************************************************)
(* C24: the type byte of a field descriptor                                *)
(***************************************************************************)
\* t_buf is the whole header of one descriptor
OneFieldHeader ==
    /\ Len(t_fields) = 1
    /\ \E term \in BOOLEAN : t_buf = TableHeaderBytes(t_fields, term)

KnownTypes ==
    <<"I8", "U8", "I16", "U16", "I32", "U32", "I64", "U64", "StringId", "String", "Struct">>

\* C24: in TableHeader::parse a type byte 0 ends the field list without error;
\* a non-zero type byte whose low nibble is not 1..11 fails the parse with an
\* invalid-data error; DataType::try_from maps 1..11 to I8, U8, I16, U16, I32,
\* U32, I64, U64, StringId, String, Struct in this order and rejects 0 and
\* 12..15.
C24_TypeValidation ==
    (OneFieldHeader /\ t_pc \in {"header", "chunk", "read"}) =>
        LET type_byte == t_fields[1].type_byte
            nibble == type_byte % 16
            tried == DataType_try_from(type_byte)
        IN
        /\ type_byte = 0 => (t_hdr.tag = "Ok" /\ t_hdr.fields = <<>>)
        /\ (type_byte # 0 /\ nibble \notin 1..11)
              => t_hdr = TableErr("InvalidData(Invalid data type)")
        /\ nibble \in 1..11
              => /\ tried = TypeOk(KnownTypes[nibble])
                 /\ t_hdr.tag = "Ok"
                 /\ Len(t_hdr.fields) = 1
                 /\ t_hdr.fields[1].data_type = KnownTypes[nibble]
        /\ nibble \notin 1..11 => tried.tag = "Err"

\* the type byte 0x10, list bit set and no type, was refused
C24_Witness ==
    /\ t_pc = "header"
    /\ t_buf = <<4, 16, 1, 65>>
    /\ t_hdr = TableErr("InvalidData(Invalid data type)")

\* the type byte 0 ended the list although the header declared more
C24_WitnessZero ==
    /\ t_pc = "header"
    /\ t_buf = <<4, 0, 1, 65>>
    /\ t_hdr = TableOk(<<>>, 2)

(***************************************************************************)
(* C28: where TableHeader::parse stops                                     *)
(***************************************************************************)
\* C28: when TableHeader::parse succeeds on a header whose size gamma took g
\* bytes and decoded to s, the bytes consumed are g + s - 1, the declared end
\* of the header, where the record loop of parse_table_chunk then starts.
C28_ConsumedIsDeclaredEnd ==
    (t_pc \in {"header", "chunk", "read"} /\ t_hdr.tag = "Ok") =>
        LET size == decode_gamma(t_buf) IN
        t_hdr.used = size.used + AsUsize(size.value) - 1

(***************************************************************************)
(* The record loops side by side: parse_array_chunk on a byte string and   *)
(* parse_table_chunk on the same bytes behind a table header               *)
(***************************************************************************)
MaxPairLen == 5

PairBufs == SeqsUpTo(ArrayBytes, MaxPairLen)

\* Header regions TableHeader::parse accepts and consumes whole: no field; the
\* field I8 "A" and the closing zero byte; the list String "A" without it; a
\* zero type byte ahead of the declared end.
PairHeads == {<<1>>, <<5, 1, 1, 65, 0>>, <<4, 26, 1, 65>>, <<4, 0>>}

TableOf(array_type) == IF array_type = "Array" THEN "Table" ELSE "SparseTable"

PairInit ==
    /\ a_pc = "loop"
    /\ a_type \in {"Array", "SparseArray"}
    /\ a_buf \in PairBufs
    /\ a_hdr = TableNone
    /\ a_st = LoopStart(0)
    /\ t_pc = "start"
    /\ t_type = TableOf(a_type)
    /\ t_fields = <<>>
    /\ t_buf \in {H \o a_buf : H \in PairHeads}
    /\ t_hdr = TableNone
    /\ t_chunk = NoTableChunk
    /\ t_chunks = ChunksNone

PairNext == ArrayIterate \/ TableHeaderParse \/ TableChunkParse

(***************************************************************************)
(* C26: tables run the record loop of arrays                               *)
(***************************************************************************)
\* both parsers have returned, and the table header took the h bytes in
\* front of the bytes the array parser was handed
BothParsed ==
    /\ a_pc = "done"
    /\ t_pc = "chunk"
    /\ t_hdr.tag = "Ok"
    /\ t_hdr.used + Len(a_buf) = Len(t_buf)
    /\ SliceFrom(t_buf, t_hdr.used) = a_buf

\* C26: parse_table_chunk on H ++ b with type Table (SparseTable) succeeds
\* exactly when parse_array_chunk on b with type Array (SparseArray) does,
\* returns the same (index, bytes) list and consumes h bytes more.
C26_TableLoopIsArrayLoop ==
    BothParsed =>
        /\ t_chunk.table_header = t_hdr
        /\ (t_chunk.st.status = "Ok") <=> (a_st.status = "Ok")
        /\ a_st.status = "Ok" =>
              /\ t_chunk.st.items = a_st.items
              /\ t_chunk.st.offset = t_hdr.used + a_st.offset

\* an empty slot and a record behind the header of one field
C26_Witness ==
    /\ BothParsed
    /\ t_type = "Table"
    /\ t_buf = <<5, 1, 1, 65, 0>> \o <<1, 2, 5, 0>>
    /\ a_st.status = "Ok"
    /\ Len(a_st.items) = 1

\* a sparse record behind the header cut by a zero type byte
C26_WitnessSparse ==
    /\ BothParsed
    /\ t_type = "SparseTable"
    /\ t_buf = <<4, 0>> \o <<2, 5, 1, 0>>
    /\ t_chunk.st.items = <<Item(5, <<1>>)>>

(***************************************************************************)
(* C29 and C30: what add_riff_chunk accepts                                *)
(***************************************************************************)
\* C29: with compression None, read_chunks on the finalized file returns one
\* chunk for each add_riff_chunk call, a call with an all-zero tag included.
C29_EveryChunkReadBack ==
    (f_pc = "read" /\ f_writer.header.compression = "None")
        => /\ f_chunks.tag = "Ok"
           /\ Len(f_chunks.chunks) = Len(f_added)

\* C30: for every payload length, 2^28 and more included, the length that
\* parse_riff_chunk rebuilds from the mode byte and the 3 length bytes that
\* add_riff_chunk wrote is the payload length, and the low nibble of the mode
\* byte is 0 (add_riff_chunk has no error to return instead).
C30_LengthFieldAgrees ==
    l_pc = "parsed" => (l_res = l_length /\ l_mode % 16 = 0)

(***************************************************************************)
(* read_chunks step by step, one loop iteration at a time: the chunk loop  *)
(* of read_chunks, the field loop of TableHeader::parse and the record     *)
(* loop of parse_array_chunk and parse_table_chunk                         *)
(***************************************************************************)
MaxWalkChunks == 2

\* Whole chunks: one of each type with the bodies of WholeBody, and a table of
\* two fields and two records.
WalkChunks ==
    {<<88, 88, 88, 88, mode_byte>> \o WholeBody(mode_byte) : mode_byte \in 0..4}
        \cup {<<84, 65, 66, 76, 3>> \o <<8, 1, 1, 65, 26, 1, 66, 0>> \o <<1, 2, 7, 3, 8, 9, 0>>}

RECURSIVE WalkPrefixes(_)
\* up to n whole chunks, one after the other
WalkPrefixes(n) ==
    IF n = 0 THEN {<<>>}
    ELSE LET shorter == WalkPrefixes(n - 1)
         IN  shorter \cup {p \o c : p \in shorter, c \in WalkChunks}

\* what the payload ends with: the end marker, part of a chunk header, a
\* chunk with part of its body, or the data that may follow a marker
WalkTails == {<<0, 0, 0, 0, 0>>} \cup PartialHeaders \cup BrokenChunks \cup TrailingData

WalkPayloads == {p \o tail : p \in WalkPrefixes(MaxWalkChunks), tail \in WalkTails}

WalkIdle ==
    /\ w_pc = "idle"
    /\ w_data = <<>>
    /\ w_offset = 0
    /\ w_chunks = <<>>
    /\ w_header = NoHeader
    /\ w_fields = FieldLoopNone
    /\ w_st = LoopNone
    /\ w_res = ChunksNone

\* let mut chunks = Vec::new(); let mut offset = 0;
WalkInit ==
    /\ w_pc = "chunks"
    /\ w_data \in WalkPayloads
    /\ w_offset = 0
    /\ w_chunks = <<>>
    /\ w_header = NoHeader
    /\ w_fields = FieldLoopNone
    /\ w_st = LoopNone
    /\ w_res = ChunksNone

\* read_chunks returns res (by return, by ? or by unwinding) at offset
WalkReturn(res, offset) ==
    /\ w_res' = res
    /\ w_offset' = offset
    /\ w_pc' = "done"
    /\ UNCHANGED <<w_data, w_chunks, w_header, w_fields, w_st>>

\* chunks.push(Chunk { .. }) after a body of used bytes at offset
WalkPush(header, chunk_data, offset, used) ==
    /\ w_chunks' = Append(w_chunks, Chunk(tag_string(header), header.chunk_type, chunk_data))
    /\ w_offset' = offset + used
    /\ w_pc' = "chunks"

\* the Riff arm of the match: parse_riff_chunk has returned r
WalkRiff(header, offset, r) ==
    IF r.tag = "Err" THEN WalkReturn(ChunksErr(r.err), offset)
    ELSE /\ WalkPush(header, ChunkData_Riff(r.data), offset, r.used)
         /\ UNCHANGED <<w_data, w_header, w_fields, w_st, w_res>>

\* the Table arm up to the field loop: TableHeader::parse has decoded size
WalkTable(header, offset, size) ==
    IF size.tag = "Err" THEN WalkReturn(ChunksErr(size.err), offset)
    ELSE IF size.tag = "Panic" THEN WalkReturn(ChunksPanic, offset)
    ELSE IF AsUsize(size.value) = 0
    THEN WalkReturn(ChunksErr("InvalidData(Table has no header)"), offset)
    ELSE /\ w_fields' = FieldLoop(size.used, size.used + AsUsize(size.value) - 1, <<>>)
         /\ w_header' = header
         /\ w_offset' = offset
         /\ w_pc' = "fields"
         /\ UNCHANGED <<w_data, w_chunks, w_st, w_res>>

\* match header.chunk_type, the body starting at offset
WalkBody(header, offset) ==
    CASE header.chunk_type = "Riff" ->
            WalkRiff(header, offset, parse_riff_chunk(header, SliceFrom(w_data, offset)))
      [] header.chunk_type \in {"Array", "SparseArray"} ->
            /\ w_st' = LoopStart(0)
            /\ w_header' = header
            /\ w_offset' = offset
            /\ w_pc' = "records"
            /\ UNCHANGED <<w_data, w_chunks, w_fields, w_res>>
      [] header.chunk_type \in {"Table", "SparseTable"} ->
            WalkTable(header, offset, decode_gamma(SliceFrom(w_data, offset)))

\* the chunk loop after ChunkHeader::parse has returned h
WalkHeader(h) ==
    IF h.tag = "Err" THEN WalkReturn(ChunksErr(h.err), w_offset)
    ELSE IF is_end_marker(h.header) THEN WalkReturn(ChunksOk(w_chunks), w_offset + h.used)
    ELSE WalkBody(h.header, w_offset + h.used)

\* An iteration of the loop of read_chunks, up to the loop of the body parser
\* where the body has one.
WalkChunk ==
    /\ w_pc = "chunks"
    /\ IF w_offset + 5 > Len(w_data) THEN WalkReturn(ChunksOk(w_chunks), w_offset)
       ELSE WalkHeader(ChunkHeader_parse(SliceFrom(w_data, w_offset)))
    /\ UNCHANGED not_w

\* the field loop has gone on to fl
WalkFieldNext(fl) ==
    /\ w_fields' = fl
    /\ CASE fl.status = "loop" -> UNCHANGED <<w_pc, w_st, w_res>>
         [] fl.status = "Ok" ->
                w_st' = LoopStart(fl.offset) /\ w_pc' = "records" /\ UNCHANGED w_res
         [] fl.status = "Err" ->
                w_res' = ChunksErr(fl.err) /\ w_pc' = "done" /\ UNCHANGED w_st
         [] OTHER ->
                w_res' = ChunksPanic /\ w_pc' = "done" /\ UNCHANGED w_st
    /\ UNCHANGED <<w_data, w_offset, w_chunks, w_header>>

\* An iteration of the field loop of TableHeader::parse, or its end.
WalkField ==
    /\ w_pc = "fields"
    /\ WalkFieldNext(table_field_step(SliceFrom(w_data, w_offset), w_fields))
    /\ UNCHANGED not_w

\* the record loop has gone on to st
WalkRecordNext(st) ==
    /\ w_st' = st
    /\ CASE st.status = "loop" -> UNCHANGED <<w_pc, w_offset, w_chunks, w_res>>
         [] st.status = "Ok" ->
                /\ WalkPush(w_header,
                            IF w_header.chunk_type \in {"Array", "SparseArray"}
                            THEN ChunkData_Array(st.items)
                            ELSE ChunkData_Table(w_fields.fields, st.items),
                            w_offset, st.offset)
                /\ UNCHANGED w_res
         [] st.status = "Err" ->
                w_res' = ChunksErr(st.err) /\ w_pc' = "done" /\ UNCHANGED <<w_offset, w_chunks>>
         [] OTHER ->
                w_res' = ChunksPanic /\ w_pc' = "done" /\ UNCHANGED <<w_offset, w_chunks>>
    /\ UNCHANGED <<w_data, w_header, w_fields>>

\* An iteration of the record loop of parse_array_chunk or parse_table_chunk.
WalkRecord ==
    /\ w_pc = "records"
    /\ WalkRecordNext(IF w_header.chunk_type \in {"Array", "SparseArray"}
                      THEN array_iter(w_header, SliceFrom(w_data, w_offset), w_st)
                      ELSE table_iter(w_header, SliceFrom(w_data, w_offset), w_st))
    /\ UNCHANGED not_w

WalkNext == WalkChunk \/ WalkField \/ WalkRecord

(***************************************************************************)
(* C27: read_chunks comes to an end                                        *)
(***************************************************************************)
\* The steps agree with read_chunks taken as a whole.
WalkAgrees ==
    w_pc = "done" => w_res = read_chunks(SavegameReader(SavegameHeader("None", 295, 0), w_data))

\* what an iteration of each loop adds to its offset
WalkProgress ==
    /\ w_offset' >= w_offset
    /\ (w_pc = "chunks" /\ w_pc' # "done") => w_offset' >= w_offset + 5
    /\ (w_pc = "fields" /\ w_fields.offset < w_fields.header_end
            /\ w_fields'.status \in {"loop", "Ok"})
          => w_fields'.offset >= w_fields.offset + 1
    /\ (w_pc = "records" /\ w_st'.status \in {"loop", "Ok"})
          => w_st'.offset >= w_st.offset + 1

\* no offset is beyond the payload
WalkInPayload ==
    /\ w_offset <= Len(w_data)
    /\ w_pc = "fields" => w_offset + w_fields.offset <= Len(w_data)
    /\ w_pc = "records" => w_offset + w_st.offset <= Len(w_data)

\* read_chunks comes to an end on every payload, every iteration moving its
\* offset forward within the payload
WalkTerminates ==
    /\ [][WalkProgress]_vars
    /\ [](WalkInPayload)
    /\ <>(w_pc = "done")

\* C27: each iteration of the chunk loop advances the offset by at least 5
\* bytes, each iteration of a record loop and of the field loop of a table
\* header by at least 1, no offset exceeds the payload length, and the call
\* ends with a chunk list or an error.
C27_EndsWithListOrError ==
    /\ [][WalkProgress]_vars
    /\ [](WalkInPayload)
    /\ <>(w_pc = "done")
    /\ [](w_pc = "done" => w_res.tag \in {"Ok", "Err"})

(***************************************************************************)
(* Specifications: one per component, the other components at rest         *)
(***************************************************************************)
\* The components added after the first five, at rest.
OthersIdle == TableIdle /\ SaveHeaderIdle /\ LengthIdle /\ EndianIdle /\ WalkIdle

InitGamma == GammaInit /\ HeaderIdle /\ RiffIdle /\ ArrayIdle /\ FileIdle /\ OthersIdle
SpecGamma == InitGamma /\ [][GammaNext]_vars

InitHeader == HeaderInit /\ GammaIdle /\ RiffIdle /\ ArrayIdle /\ FileIdle /\ OthersIdle
SpecHeader == InitHeader /\ [][HeaderNext]_vars

InitRiff == RiffInit /\ GammaIdle /\ HeaderIdle /\ ArrayIdle /\ FileIdle /\ OthersIdle
SpecRiff == InitRiff /\ [][RiffNext]_vars

InitArray == ArrayInit /\ GammaIdle /\ HeaderIdle /\ RiffIdle /\ FileIdle /\ OthersIdle
SpecArray == InitArray /\ [][ArrayNext]_vars

InitFile == FileInit /\ GammaIdle /\ HeaderIdle /\ RiffIdle /\ ArrayIdle /\ OthersIdle
SpecFile == InitFile /\ [][FileNext]_vars

FirstIdle == GammaIdle /\ HeaderIdle /\ RiffIdle /\ ArrayIdle /\ FileIdle

InitTable == TableInit /\ FirstIdle /\ SaveHeaderIdle /\ LengthIdle /\ EndianIdle /\ WalkIdle
SpecTable == InitTable /\ [][TableNext]_vars

InitSaveHeader == SaveHeaderInit /\ FirstIdle /\ TableIdle /\ LengthIdle /\ EndianIdle /\ WalkIdle
SpecSaveHeader == InitSaveHeader /\ [][SaveHeaderNext]_vars

RestIdle == GammaIdle /\ HeaderIdle /\ RiffIdle /\ ArrayIdle /\ OthersIdle

InitLzo == LzoInit /\ RestIdle
SpecLzo == InitLzo /\ [][LzoNext]_vars

InitTail == TailInit /\ RestIdle
SpecTail == InitTail /\ [][TailNext]_vars

\* add_riff_chunk on a writer, and its length field on its own.
WriteNext == AddRiffChunk \/ LengthWrite \/ LengthParse

InitWrite ==
    TailInit /\ LengthInit /\ GammaIdle /\ HeaderIdle /\ RiffIdle /\ ArrayIdle
        /\ TableIdle /\ SaveHeaderIdle /\ EndianIdle /\ WalkIdle
SpecWrite == InitWrite /\ [][WriteNext]_vars

InitEndian ==
    EndianInit /\ FirstIdle /\ TableIdle /\ SaveHeaderIdle /\ LengthIdle /\ WalkIdle
SpecEndian == InitEndian /\ [][EndianNext]_vars

InitTableRaw == TableRawInit /\ FirstIdle /\ SaveHeaderIdle /\ LengthIdle /\ EndianIdle /\ WalkIdle
SpecTableRaw == InitTableRaw /\ [][TableRawNext]_vars

InitPair ==
    PairInit /\ GammaIdle /\ HeaderIdle /\ RiffIdle /\ FileIdle
        /\ SaveHeaderIdle /\ LengthIdle /\ EndianIdle /\ WalkIdle
SpecPair == InitPair /\ [][PairNext]_vars

\* read_chunks is sequential code: a step that can be taken is taken.
InitWalk ==
    WalkInit /\ FirstIdle /\ TableIdle /\ SaveHeaderIdle /\ LengthIdle /\ EndianIdle
SpecWalk == InitWalk /\ [][WalkNext]_vars /\ WF_vars(WalkNext)
====
